---- MODULE Spec2Model ----
(***************************************************************************)
(* Model of the options scanner of schwab-options-desktop                  *)
(* (src/schwab-options-desktop/src/OptionsScanner.js).                     *)
(*                                                                         *)
(* Numbers.  JavaScript numbers are modelled by integers in fixed units:   *)
(*   prices (bid, ask, premium, timeValue)  half-cents (2.25 USD = 450)    *)
(*   delta, gamma, theta, volatility        hundredths (0.4 = 40)          *)
(*   volume, days, scores                   units                          *)
(* Quotes are whole cents, hence even numbers of half-cents, so that the   *)
(* midpoint (bid + ask) / 2 is exact.  Quotients that are not integers     *)
(* (spreadPercent, valueScore, the weighted sum) are kept as fractions     *)
(* <<n, d>> with d >= 0; d = 0 is the IEEE result of dividing a positive   *)
(* number by zero (+Infinity).  NaN and undefined are the two sentinels    *)
(* below; every comparison with NaN is false, as in JavaScript.            *)
(***************************************************************************)
EXTENDS Integers, Sequences, FiniteSets, TLC

\* an absent field of a payload / a state that holds null
Undefined == -1000001
\* the result of parseInt("") or of new Date(<unparsable>) - new Date()
NaN == -1000002

\* x || 0
OrZero(x) == IF x = Undefined \/ x = NaN THEN 0 ELSE x

\* relational operators of JavaScript on numbers that may be NaN
JsLe(a, b) == a # NaN /\ b # NaN /\ a <= b
JsGe(a, b) == a # NaN /\ b # NaN /\ a >= b
JsGt(a, b) == a # NaN /\ b # NaN /\ a > b
JsLt(a, b) == a # NaN /\ b # NaN /\ a < b

\* Math.abs
Abs(x) == IF x < 0 THEN -x ELSE x

\* half-cents per dollar: riskSettings.maxOptionPrice is entered in dollars
PriceScale == 200

(***************************************************************************)
(* Fractions <<n, d>>, d >= 0.                                             *)
(***************************************************************************)
\* a / b for integers a, b with a > 0 whenever b = 0
Quot(a, b) == IF b < 0 THEN <<-a, -b>> ELSE <<a, b>>
\* q * k, k >= 0
Times(q, k) == <<q[1] * k, q[2]>>
\* q <= k for an integer k
FracLe(q, k) == IF q[2] = 0 THEN FALSE ELSE q[1] <= k * q[2]
\* Math.min(100, q)
Min100(q) == IF FracLe(q, 100) THEN q ELSE <<100, 1>>
\* Math.floor(q): a scorer that truncates where calculateLCEScore rounds
MathFloor(q) == q[1] \div q[2]

\* Math.round(q): the nearest integer, halves rounded towards +Infinity
MathRound(q) == (2 * q[1] + q[2]) \div (2 * q[2])

(***************************************************************************)
(* Program constants.                                                      *)
(***************************************************************************)
TRADING_STRATEGIES ==
    {"HIGH_MOMENTUM", "HIGH_VALUE", "VOLATILITY_EXPANSION", "EARNINGS_PLAYS",
     "TECHNICAL_SETUPS"}

\* LIQUIDITY_LEVELS.<level>.minVolume
LIQUIDITY_LEVELS == [HIGH |-> 1000, MEDIUM |-> 500, LOW |-> 0]

\* useState initial value of riskSettings (the fields the scanner reads)
DefaultRiskSettings ==
    [maxOptionPrice |-> 500, minVolume |-> 500,
     minDaysToExpiry |-> 7, maxDaysToExpiry |-> 45]

\* slice(0, 50) of applyStrategyFilter and slice(0, 100) of startScan
StrategyCap == 50
ScanCap == 100

(***************************************************************************)
(* calculateLCEScore.  The body of the try block never throws in           *)
(* JavaScript (a division by zero yields Infinity), so the catch branch    *)
(* has no counterpart here.                                                *)
(***************************************************************************)
\* a scorer that returns the rounded sum as it is
ClampNone(lceScore) == lceScore

\* Math.max(0, Math.min(100, lceScore))
Clamp(lceScore) ==
    IF lceScore < 0 THEN 0 ELSE IF lceScore > 100 THEN 100 ELSE lceScore

calculateLCEScore(option) ==
    LET volume == OrZero(option.totalVolume)
        bid == OrZero(option.bid)
        ask == OrZero(option.ask)
        premium == (bid + ask) \div 2
        spread == ask - bid
        spreadPercent ==
            IF premium > 0 THEN Times(Quot(spread, premium), 100) ELSE <<100, 1>>
        liquidityScore ==
            IF volume >= 1000 THEN 100
            ELSE IF volume >= 500 THEN 75
            ELSE IF volume >= 100 THEN 50
            ELSE IF volume >= 50 THEN 25
            ELSE 0
        costScore ==
            IF FracLe(spreadPercent, 3) THEN 100
            ELSE IF FracLe(spreadPercent, 5) THEN 80
            ELSE IF FracLe(spreadPercent, 10) THEN 60
            ELSE IF FracLe(spreadPercent, 15) THEN 40
            ELSE IF FracLe(spreadPercent, 25) THEN 20
            ELSE 0
        impliedVol == OrZero(option.volatility)
        timeValue == OrZero(option.timeValue)
        valueScore ==
            IF timeValue > 0 /\ impliedVol > 0
            THEN Min100(Times(Quot(timeValue, premium), 100))
            ELSE <<0, 1>>
        \* liquidityScore * 0.4 + costScore * 0.35 + valueScore * 0.25
        weighted ==
            <<(40 * liquidityScore + 35 * costScore) * valueScore[2]
                  + 25 * valueScore[1],
              100 * valueScore[2]>>
        lceScore == MathRound(weighted)
    IN  Clamp(lceScore)

(***************************************************************************)
(* applyStrategyFilter.  `a && b` on numbers is truthy iff a is neither 0  *)
(* nor NaN and b is true.                                                  *)
(***************************************************************************)
Truthy(x) == x # 0 /\ x # NaN /\ x # Undefined

\* riskSettings.maxOptionPrice in half-cents
MaxPrice(riskSettings) ==
    IF riskSettings.maxOptionPrice = NaN THEN NaN
    ELSE riskSettings.maxOptionPrice * PriceScale

\* the predicates with an unknown strategy keeping nothing
StrategyPredicateStrict(option, strategy, riskSettings) ==
    CASE strategy = "HIGH_MOMENTUM" ->
            Truthy(option.delta) /\ Abs(option.delta) > 40
                /\ option.totalVolume >= 500
      [] strategy = "HIGH_VALUE" ->
            option.lceScore >= 70
                /\ JsLe(option.premium, MaxPrice(riskSettings))
      [] strategy = "VOLATILITY_EXPANSION" ->
            Truthy(option.volatility) /\ option.volatility > 30
                /\ option.gamma > 1
      [] strategy = "EARNINGS_PLAYS" ->
            JsLe(option.daysToExpiry, 14) /\ option.totalVolume >= 1000
      [] strategy = "TECHNICAL_SETUPS" ->
            Truthy(option.delta) /\ Abs(option.delta) >= 30
                /\ option.theta < -5
      [] OTHER -> FALSE

\* the predicates with HIGH_MOMENTUM's delta bound taken inclusively
StrategyPredicateInclusive(option, strategy, riskSettings) ==
    CASE strategy = "HIGH_MOMENTUM" ->
            Truthy(option.delta) /\ Abs(option.delta) >= 40
                /\ option.totalVolume >= 500
      [] strategy = "HIGH_VALUE" ->
            option.lceScore >= 70
                /\ JsLe(option.premium, MaxPrice(riskSettings))
      [] strategy = "VOLATILITY_EXPANSION" ->
            Truthy(option.volatility) /\ option.volatility > 30
                /\ option.gamma > 1
      [] strategy = "EARNINGS_PLAYS" ->
            JsLe(option.daysToExpiry, 14) /\ option.totalVolume >= 1000
      [] strategy = "TECHNICAL_SETUPS" ->
            Truthy(option.delta) /\ Abs(option.delta) >= 30
                /\ option.theta < -5
      [] OTHER -> TRUE

StrategyPredicate(option, strategy, riskSettings) ==
    CASE strategy = "HIGH_MOMENTUM" ->
            Truthy(option.delta) /\ Abs(option.delta) > 40
                /\ option.totalVolume >= 500
      [] strategy = "HIGH_VALUE" ->
            option.lceScore >= 70
                /\ JsLe(option.premium, MaxPrice(riskSettings))
      [] strategy = "VOLATILITY_EXPANSION" ->
            Truthy(option.volatility) /\ option.volatility > 30
                /\ option.gamma > 1
      [] strategy = "EARNINGS_PLAYS" ->
            JsLe(option.daysToExpiry, 14) /\ option.totalVolume >= 1000
      [] strategy = "TECHNICAL_SETUPS" ->
            Truthy(option.delta) /\ Abs(option.delta) >= 30
                /\ option.theta < -5
      [] OTHER -> TRUE

\* options.filter(...)
FilterOptions(options, strategy, riskSettings) ==
    SelectSeq(options, LAMBDA o : StrategyPredicate(o, strategy, riskSettings))

\* the largest and the smallest number of a non-empty set
Max(S) == CHOOSE m \in S : \A k \in S : k <= m
Min(S) == CHOOSE m \in S : \A k \in S : k >= m

\* [...arr].reverse()
Reverse(arr) == [i \in 1..Len(arr) |-> arr[Len(arr) + 1 - i]]

\* the elements of arr whose lceScore is in keys, by lceScore descending,
\* elements with the same lceScore in the order they have in arr
RECURSIVE ByScoreDesc(_, _)
ByScoreDesc(arr, keys) ==
    IF keys = {} THEN <<>>
    ELSE SelectSeq(arr, LAMBDA o : o.lceScore = Max(keys))
            \o ByScoreDesc(arr, keys \ {Max(keys)})

\* arr.sort((a, b) => b.lceScore - a.lceScore); Array.prototype.sort is stable
SortByScoreDesc(arr) ==
    ByScoreDesc(arr, {arr[i].lceScore : i \in 1..Len(arr)})

\* arr.slice(0, n)
Slice(arr, n) == SubSeq(arr, 1, IF Len(arr) < n THEN Len(arr) ELSE n)

\* a strategy filter that sorts and does not truncate
applyStrategyFilterUncapped(options, strategy, riskSettings) ==
    SortByScoreDesc(SelectSeq(options,
        LAMBDA o : StrategyPredicate(o, strategy, riskSettings)))

applyStrategyFilter(options, strategy, riskSettings) ==
    Slice(SortByScoreDesc(FilterOptions(options, strategy, riskSettings)),
          StrategyCap)

(***************************************************************************)
(* fetchOptionsChain.                                                      *)
(*                                                                         *)
(* A response of GET /api/options/<symbol> is one of                       *)
(*   [kind |-> "error", message |-> m]   axios rejected (HTTP error status,*)
(*                                       rate limit, 30 s timeout)         *)
(*   [kind |-> "null"]                   response.data is empty            *)
(*   [kind |-> "data", data |-> d]       d a record whose fields are among *)
(*                                       callExpDateMap and putExpDateMap  *)
(* An expDateMap is the sequence of its Object.entries: records            *)
(*   [expDate, diffHours, strikesNull, strikes], diffHours = expiryDate -  *)
(*   new Date() in hours (NaN for a key that new Date() cannot parse);     *)
(*   strikesNull says that the bucket is null, and otherwise strikes is    *)
(*   the sequence of its entries [strike, contractArray].                  *)
(***************************************************************************)
\* Math.ceil(x / 24) for an integer number of hours
CeilDays(diffHours) ==
    IF diffHours = NaN THEN NaN ELSE -((-diffHours) \div 24)

\* tiers whose lower bounds are exclusive
LiquidityExclusive(totalVolume) ==
    IF totalVolume > LIQUIDITY_LEVELS.HIGH THEN "HIGH"
    ELSE IF totalVolume > LIQUIDITY_LEVELS.MEDIUM THEN "MEDIUM"
    ELSE "LOW"

Liquidity(totalVolume) ==
    IF totalVolume >= LIQUIDITY_LEVELS.HIGH THEN "HIGH"
    ELSE IF totalVolume >= LIQUIDITY_LEVELS.MEDIUM THEN "MEDIUM"
    ELSE "LOW"

\* a normalizer that tests the premium against maxOptionPrice only
NormalizeContractNoFloor(symbol, type, expDate, daysToExpiry, strike, contract, riskSettings) ==
    LET premium == (OrZero(contract.bid) + OrZero(contract.ask)) \div 2
        option ==
            [symbol |-> symbol, type |-> type, strike |-> strike,
             premium |-> premium,
             bid |-> OrZero(contract.bid), ask |-> OrZero(contract.ask),
             volume |-> OrZero(contract.totalVolume),
             totalVolume |-> OrZero(contract.totalVolume),
             delta |-> OrZero(contract.delta), gamma |-> OrZero(contract.gamma),
             theta |-> OrZero(contract.theta),
             volatility |-> OrZero(contract.volatility),
             timeValue |-> OrZero(contract.timeValue),
             daysToExpiry |-> daysToExpiry, expDate |-> expDate]
    IN  IF JsLe(premium, MaxPrice(riskSettings))
        THEN <<option @@ [lceScore |-> calculateLCEScore(option),
                          liquidity |-> Liquidity(option.totalVolume)]>>
        ELSE <<>>

\* lines 184-215: the option built from contractArray[0], or nothing
NormalizeContract(symbol, type, expDate, daysToExpiry, strike, contract, riskSettings) ==
    LET premium == (OrZero(contract.bid) + OrZero(contract.ask)) \div 2
        option ==
            [symbol |-> symbol, type |-> type, strike |-> strike,
             premium |-> premium,
             bid |-> OrZero(contract.bid), ask |-> OrZero(contract.ask),
             volume |-> OrZero(contract.totalVolume),
             totalVolume |-> OrZero(contract.totalVolume),
             delta |-> OrZero(contract.delta), gamma |-> OrZero(contract.gamma),
             theta |-> OrZero(contract.theta),
             volatility |-> OrZero(contract.volatility),
             timeValue |-> OrZero(contract.timeValue),
             daysToExpiry |-> daysToExpiry, expDate |-> expDate]
    IN  IF JsLe(premium, MaxPrice(riskSettings)) /\ premium > 0
        THEN <<option @@ [lceScore |-> calculateLCEScore(option),
                          liquidity |-> Liquidity(option.totalVolume)]>>
        ELSE <<>>

\* Object.entries(strikes).forEach(...): the options of the strikes that
\* yield one, in the order of the strikes
ProcessStrikes(symbol, type, expDate, daysToExpiry, strikes, riskSettings) ==
    LET each == [k \in 1..Len(strikes) |->
                    IF Len(strikes[k].contractArray) > 0
                    THEN NormalizeContract(symbol, type, expDate, daysToExpiry,
                                           strikes[k].strike,
                                           strikes[k].contractArray[1],
                                           riskSettings)
                    ELSE <<>>]
        pushed == SelectSeq(each, LAMBDA o : Len(o) > 0)
    IN  [k \in 1..Len(pushed) |-> pushed[k][1]]

\* the date bucket passes the daysToExpiry window
InWindow(entry, riskSettings) ==
    /\ JsGe(CeilDays(entry.diffHours), riskSettings.minDaysToExpiry)
    /\ JsLe(CeilDays(entry.diffHours), riskSettings.maxDaysToExpiry)

RECURSIVE processExpDateMap(_, _, _, _)
processExpDateMap(symbol, expDateMap, type, riskSettings) ==
    IF expDateMap = <<>> THEN <<>>
    ELSE LET e == Head(expDateMap)
         IN  (IF InWindow(e, riskSettings)
              THEN ProcessStrikes(symbol, type, e.expDate,
                                  CeilDays(e.diffHours), e.strikes, riskSettings)
              ELSE <<>>)
             \o processExpDateMap(symbol, Tail(expDateMap), type, riskSettings)

\* data.<field> || {}
MapOf(data, field) == IF field \in DOMAIN data THEN data[field] ELSE <<>>

\* Object.entries(strikes) throws a TypeError on a null bucket inside the window
NormalizeThrows(data, riskSettings) ==
    \E f \in DOMAIN data \cap {"callExpDateMap", "putExpDateMap"} :
      \E k \in 1..Len(data[f]) :
        InWindow(data[f][k], riskSettings) /\ data[f][k].strikesNull

\* a fetchOptionsChain that returns the options whatever their volume
fetchOptionsChainUnfiltered(symbol, response, riskSettings) ==
    IF response.kind = "error"
    THEN [options |-> <<>>, error |-> response.message]
    ELSE IF response.kind = "null"
            \/ ("callExpDateMap" \notin DOMAIN response.data
                /\ "putExpDateMap" \notin DOMAIN response.data)
    THEN [options |-> <<>>, error |-> "No options data"]
    ELSE IF NormalizeThrows(response.data, riskSettings)
    THEN [options |-> <<>>, error |-> "TypeError"]
    ELSE [options |->
             processExpDateMap(symbol, MapOf(response.data, "callExpDateMap"),
                               "CALL", riskSettings)
             \o processExpDateMap(symbol, MapOf(response.data, "putExpDateMap"),
                                  "PUT", riskSettings),
          error |-> "none"]

\* a fetchOptionsChain without the test for a payload that has no chain
fetchOptionsChainUnchecked(symbol, response, riskSettings) ==
    IF response.kind = "error"
    THEN [options |-> <<>>, error |-> response.message]
    ELSE IF response.kind = "null"
    THEN [options |-> <<>>, error |-> "TypeError"]
    ELSE IF NormalizeThrows(response.data, riskSettings)
    THEN [options |-> <<>>, error |-> "TypeError"]
    ELSE LET options ==
                 processExpDateMap(symbol, MapOf(response.data, "callExpDateMap"),
                                   "CALL", riskSettings)
                 \o processExpDateMap(symbol, MapOf(response.data, "putExpDateMap"),
                                      "PUT", riskSettings)
         IN  [options |-> SelectSeq(options,
                              LAMBDA opt : JsGe(opt.totalVolume, riskSettings.minVolume)),
              error |-> "none"]

\* the value fetchOptionsChain resolves to, and the message its catch block logs
fetchOptionsChain(symbol, response, riskSettings) ==
    IF response.kind = "error"
    THEN [options |-> <<>>, error |-> response.message]
    ELSE IF response.kind = "null"
            \/ ("callExpDateMap" \notin DOMAIN response.data
                /\ "putExpDateMap" \notin DOMAIN response.data)
    THEN [options |-> <<>>, error |-> "No options data"]
    ELSE IF NormalizeThrows(response.data, riskSettings)
    THEN [options |-> <<>>, error |-> "TypeError"]
    ELSE LET options ==
                 processExpDateMap(symbol, MapOf(response.data, "callExpDateMap"),
                                   "CALL", riskSettings)
                 \o processExpDateMap(symbol, MapOf(response.data, "putExpDateMap"),
                                      "PUT", riskSettings)
         IN  [options |-> SelectSeq(options,
                              LAMBDA opt : JsGe(opt.totalVolume, riskSettings.minVolume)),
              error |-> "none"]

(***************************************************************************)
(* The OptionsScanner component.                                           *)
(***************************************************************************)
POPULAR_SYMBOLS ==
    <<"SPY", "QQQ", "AAPL", "TSLA", "MSFT", "GOOGL", "AMZN", "NVDA", "META",
      "NFLX", "AMD", "BABA", "DIS", "UBER", "PYPL", "ZOOM", "CRM", "SHOP", "SQ",
      "ROKU", "PELOTON", "GME", "AMC", "BB">>

\* the model scans the first NumSymbols symbols of POPULAR_SYMBOLS, and the
\* first RankSymbols where the chains are long
NumSymbols == 2
RankSymbols == 3
\* what a behaviour of the model holds at most: clicks of the scan and live
\* buttons, edits (of the strategy, the risk settings, the sort order, the
\* authStatus prop), timer ticks, scans
MaxClicks == 2
MaxEdits == 1
MaxTicks == 1
MaxScans == 2

VARIABLES
    symbols,          \* the list startScan walks: a prefix of POPULAR_SYMBOLS
    authenticated,    \* the prop authStatus?.authenticated
    isScanning, scanProgress, opportunities,
    selectedStrategy, riskSettings,
    scanInterval,     \* the state: the id of the live timer, Undefined for null
    scanIntervalRef,  \* scanIntervalRef.current
    lastScanTime,     \* Undefined for null, else the id of the scan that set it
    activityLog,
    sortColumn, sortDirection,
    timers,           \* the intervals set and not cleared: [id, closure]
    scans,            \* the startScan invocations that have not returned
    requests,         \* the chain requests in flight: [scan, i]
    clicks, edits, ticks, started,   \* how many clicks, edits, ticks, scans so far
    fnIn, fnOut,      \* argument and result of a function applied on its own
    appAuthStatus,    \* EnhancedApp's authStatus: <<>> for null, else <<object>>
    activeTab,        \* EnhancedApp's activeTab
    tokenFile,        \* the backend's .tokens.enc: <<>> if absent, else <<tokenData>>
    cache,            \* SchwabAPIService's cache: <<>> or <<entry>> of the one key
    now,              \* the backend's Date.now(), in ms
    issued,           \* how many access tokens the provider has issued
    marketData,       \* SchwabDualAuth's config of the Market Data service
    trading           \* SchwabDualAuth's config of the Accounts & Trading service

scannerVars ==
    <<symbols, authenticated, isScanning, scanProgress, opportunities, selectedStrategy,
      riskSettings, scanInterval, scanIntervalRef, lastScanTime, activityLog,
      sortColumn, sortDirection, timers, scans, requests, clicks, edits, ticks,
      started>>

\* the state of the parent component EnhancedApp
appVars == <<appAuthStatus, activeTab>>

\* the state of the backend: the token file and the cache of
\* SchwabAPIService, the clock, and the two configs of SchwabDualAuth
backendVars == <<tokenFile, cache, now, issued, marketData, trading>>

vars == <<scannerVars, fnIn, fnOut, appVars, backendVars>>

\* a config of SchwabDualAuth as constructed: the fields are null
NoConfig == [accessToken |-> Undefined, refreshToken |-> Undefined,
             tokenExpiry |-> Undefined]

\* the backend as constructed where no token was ever stored
BackendConstructed ==
    /\ tokenFile = <<>>
    /\ cache = <<>>
    /\ now = 0
    /\ issued = 0
    /\ marketData = NoConfig
    /\ trading = NoConfig

\* EnhancedApp as constructed: useState(null), useState('scanner')
AppConstructed == appAuthStatus = <<>> /\ activeTab = "scanner"

\* authStatus?.authenticated in EnhancedApp
AppAuthenticated == appAuthStatus # <<>> /\ appAuthStatus[1].authenticated

totalSymbols == Len(symbols)

\* what the functions of one render close over
Render ==
    [isScanning |-> isScanning, authenticated |-> authenticated,
     selectedStrategy |-> selectedStrategy, riskSettings |-> riskSettings]

\* a log entry: the message text is its fixed part, the symbol's index, a
\* count and a detail (error message, strategy); timestamp and id (the wall
\* clock) are left out
LogEntry(message, detail, sym, n, type) ==
    [message |-> message, detail |-> detail, sym |-> sym, n |-> n, type |-> type]

\* an updater that keeps prev.slice(0, 100)
addActivityLogKeepAll(prev, entry) == <<entry>> \o Slice(prev, 100)

\* the updater of addActivityLog: prev => [logEntry, ...prev.slice(0, 99)]
addActivityLog(prev, entry) == <<entry>> \o Slice(prev, 99)

\* addActivityLog for each entry of a sequence, in order
RECURSIVE LogAll(_, _)
LogAll(prev, entries) ==
    IF entries = <<>> THEN prev
    ELSE LogAll(addActivityLog(prev, Head(entries)), Tail(entries))

\* Math.round(((i + 1) / totalSymbols) * 100) for the 1-based index i
Progress(i) == MathRound(<<i * 100, totalSymbols>>)

ScannerInit ==
    /\ authenticated \in BOOLEAN
    /\ isScanning = FALSE
    /\ scanProgress = 0
    /\ opportunities = <<>>
    /\ selectedStrategy = "HIGH_MOMENTUM"
    /\ riskSettings = DefaultRiskSettings
    /\ scanInterval = Undefined
    /\ scanIntervalRef = Undefined
    /\ lastScanTime = Undefined
    /\ activityLog = <<>>
    /\ sortColumn = "lceScore"
    /\ sortDirection = "desc"
    /\ timers = {}
    /\ scans = {}
    /\ requests = {}
    /\ clicks = 0
    /\ edits = 0
    /\ ticks = 0
    /\ started = 0

(***************************************************************************)
(* A startScan that requests the chains of all symbols at once.            *)
(***************************************************************************)
startScanParallel(c, log) ==
    IF ~c.authenticated
    THEN /\ activityLog' =
                addActivityLog(log, LogEntry("ERROR: Not authenticated with Schwab",
                                             "", 0, 0, "error"))
         /\ UNCHANGED <<isScanning, scanProgress, opportunities, lastScanTime,
                        scans, requests, started>>
    ELSE /\ started < MaxScans
         /\ started' = started + 1
         /\ isScanning' = TRUE
         /\ scanProgress' = Progress(1)
         /\ opportunities' = <<>>
         /\ activityLog' =
                LogAll(log, <<LogEntry("Starting scan", c.selectedStrategy, 0, 0, "info"),
                              LogEntry("Scanning", "", 1, 0, "info")>>)
         /\ scans' = scans \cup
                {[id |-> started + 1, i |-> 1, pc |-> "fetch",
                  allOpportunities |-> <<>>,
                  selectedStrategy |-> c.selectedStrategy,
                  riskSettings |-> c.riskSettings]}
         /\ requests' = requests \cup
                {[scan |-> started + 1, i |-> k] : k \in 1..totalSymbols}
         /\ UNCHANGED lastScanTime

\* a startScan that resets the scan state before it checks the authentication
startScanEager(c, log) ==
    IF ~c.authenticated
    THEN /\ activityLog' =
                addActivityLog(log, LogEntry("ERROR: Not authenticated with Schwab",
                                             "", 0, 0, "error"))
         /\ isScanning' = TRUE
         /\ scanProgress' = 0
         /\ opportunities' = <<>>
         /\ UNCHANGED <<lastScanTime, scans, requests, started>>
    ELSE /\ started < MaxScans
         /\ started' = started + 1
         /\ isScanning' = TRUE
         /\ scanProgress' = Progress(1)
         /\ opportunities' = <<>>
         /\ activityLog' =
                LogAll(log, <<LogEntry("Starting scan", c.selectedStrategy, 0, 0, "info"),
                              LogEntry("Scanning", "", 1, 0, "info")>>)
         /\ scans' = scans \cup
                {[id |-> started + 1, i |-> 1, pc |-> "fetch",
                  allOpportunities |-> <<>>,
                  selectedStrategy |-> c.selectedStrategy,
                  riskSettings |-> c.riskSettings]}
         /\ requests' = requests \cup {[scan |-> started + 1, i |-> 1]}
         /\ UNCHANGED lastScanTime

(***************************************************************************)
(* startScan, called from the render `c`: the synchronous part, up to the  *)
(* first await (axios.get of the first symbol has been issued).  `log` is  *)
(* the activity log to append to.                                          *)
(***************************************************************************)
startScan(c, log) ==
    IF ~c.authenticated
    THEN /\ activityLog' =
                addActivityLog(log, LogEntry("ERROR: Not authenticated with Schwab",
                                             "", 0, 0, "error"))
         /\ UNCHANGED <<isScanning, scanProgress, opportunities, lastScanTime,
                        scans, requests, started>>
    ELSE /\ started < MaxScans
         /\ started' = started + 1
         /\ isScanning' = TRUE
         /\ scanProgress' = Progress(1)
         /\ opportunities' = <<>>
         /\ activityLog' =
                LogAll(log, <<LogEntry("Starting scan", c.selectedStrategy, 0, 0, "info"),
                              LogEntry("Scanning", "", 1, 0, "info")>>)
         /\ scans' = scans \cup
                {[id |-> started + 1, i |-> 1, pc |-> "fetch",
                  allOpportunities |-> <<>>,
                  selectedStrategy |-> c.selectedStrategy,
                  riskSettings |-> c.riskSettings]}
         /\ requests' = requests \cup {[scan |-> started + 1, i |-> 1]}
         /\ UNCHANGED lastScanTime

\* the scanner variables no handler but the scan itself writes
scanState == <<isScanning, scanProgress, opportunities, lastScanTime, scans,
               requests, started>>

\* one more click of a button, one more edit
Click == clicks < MaxClicks /\ clicks' = clicks + 1 /\ UNCHANGED edits
Edit == edits < MaxEdits /\ edits' = edits + 1 /\ UNCHANGED clicks

\* the "Start Scan" button: disabled={!authStatus?.authenticated || isScanning}
ClickStartScan ==
    /\ Click
    /\ authenticated /\ ~isScanning
    /\ startScan(Render, activityLog)
    /\ UNCHANGED <<symbols, authenticated, selectedStrategy, riskSettings, scanInterval,
                   scanIntervalRef, sortColumn, sortDirection, timers, ticks,
                   fnIn, fnOut, appVars, backendVars>>

\* the "Run Scan" button, rendered when no opportunity is shown and no scan
\* runs (the search box is left empty, so every opportunity is shown)
ClickRunScan ==
    /\ Click
    /\ Len(opportunities) = 0 /\ ~isScanning
    /\ startScan(Render, activityLog)
    /\ UNCHANGED <<symbols, authenticated, selectedStrategy, riskSettings, scanInterval,
                   scanIntervalRef, sortColumn, sortDirection, timers, ticks,
                   fnIn, fnOut, appVars, backendVars>>

\* startLiveScanning, from the current render; the interval callback closes
\* over this render's isScanning and startScan
startLiveScanning ==
    LET id == clicks + 1   \* the fresh id setInterval returns
    IN  /\ timers' = {t \in timers : t.id # scanIntervalRef}
                        \cup {[id |-> id, closure |-> Render]}
        /\ scanIntervalRef' = id
        /\ scanInterval' = id
        /\ startScan(Render,
                     addActivityLog(activityLog,
                         LogEntry("Live scanning activated", "", 0, 0, "info")))

\* a stopLiveScanning that also abandons the scans that run
stopLiveScanningCancel ==
    /\ timers' = {t \in timers : t.id # scanIntervalRef}
    /\ scanIntervalRef' = Undefined
    /\ scanInterval' = Undefined
    /\ activityLog' = addActivityLog(activityLog,
                          LogEntry("Live scanning stopped", "", 0, 0, "info"))
    /\ scans' = {}
    /\ requests' = {}
    /\ isScanning' = FALSE
    /\ UNCHANGED <<scanProgress, opportunities, lastScanTime, started>>

stopLiveScanning ==
    /\ timers' = {t \in timers : t.id # scanIntervalRef}
    /\ scanIntervalRef' = Undefined
    /\ scanInterval' = Undefined
    /\ activityLog' = addActivityLog(activityLog,
                          LogEntry("Live scanning stopped", "", 0, 0, "info"))
    /\ UNCHANGED scanState

\* the live button: onClick={scanInterval ? stopLiveScanning : startLiveScanning}
ClickStartLive ==
    /\ Click
    /\ authenticated /\ scanInterval = Undefined
    /\ startLiveScanning
    /\ UNCHANGED <<symbols, authenticated, selectedStrategy, riskSettings, sortColumn,
                   sortDirection, ticks, fnIn, fnOut, appVars, backendVars>>

ClickStopLive ==
    /\ Click
    /\ authenticated /\ scanInterval # Undefined
    /\ stopLiveScanning
    /\ UNCHANGED <<symbols, authenticated, selectedStrategy, riskSettings, sortColumn,
                   sortDirection, ticks, fnIn, fnOut, appVars, backendVars>>

\* the callback of setInterval: if (!isScanning) startScan(), both names bound
\* in the render that called startLiveScanning
TimerTick ==
    /\ ticks < MaxTicks
    /\ ticks' = ticks + 1
    /\ \E t \in timers :
          IF ~t.closure.isScanning
          THEN startScan(t.closure, activityLog)
          ELSE UNCHANGED <<scanState, activityLog>>
    /\ UNCHANGED <<symbols, authenticated, selectedStrategy, riskSettings, scanInterval,
                   scanIntervalRef, sortColumn, sortDirection, timers, clicks,
                   edits, fnIn, fnOut, appVars, backendVars>>

(***************************************************************************)
(* The responses the backend gives in the model.                           *)
(***************************************************************************)
Contract(bid, ask, totalVolume, delta, gamma, theta, volatility, timeValue) ==
    [bid |-> bid, ask |-> ask, totalVolume |-> totalVolume, delta |-> delta,
     gamma |-> gamma, theta |-> theta, volatility |-> volatility,
     timeValue |-> timeValue]

Strike(strike, contracts) == [strike |-> strike, contractArray |-> contracts]

DateEntry(expDate, diffHours, strikes) ==
    [expDate |-> expDate, diffHours |-> diffHours, strikesNull |-> FALSE,
     strikes |-> strikes]

\* a chain of three contracts: two calls 10 days out, one put 21 days out
SmallChain ==
    [callExpDateMap |->
        <<DateEntry(1, 230,
            <<Strike(100, <<Contract(400, 500, 1200, 55, 2, -8, 35, 100)>>),
              Strike(105, <<Contract(200, 204, 600, 45, 1, -3, 20, 0)>>)>>)>>,
     putExpDateMap |->
        <<DateEntry(2, 500,
            <<Strike(95, <<Contract(300, 320, 1500, -60, 3, -9, 40, 50)>>)>>)>>]

\* strikes a chain with many strikes has
BigChainStrikes == 52

\* a chain of BigChainStrikes calls that all pass HIGH_MOMENTUM, with
\* differing scores
BigChain ==
    [callExpDateMap |->
        <<DateEntry(1, 230,
            [k \in 1..BigChainStrikes |->
                Strike(k, <<Contract(400, 400 + 8 * (k % 6),
                                     IF k % 2 = 0 THEN 1200 ELSE 600,
                                     50, 2, -8, 35, 40 * (k % 4))>>)])>>]

\* a chain with a null strike bucket inside the expiry window
MalformedChain ==
    [callExpDateMap |->
        <<[expDate |-> 1, diffHours |-> 230, strikesNull |-> TRUE,
           strikes |-> <<>>]>>]

\* what a request may be answered with
Responses ==
    {[kind |-> "error", message |-> "timeout of 30000ms exceeded"],
     [kind |-> "data", data |-> SmallChain]}

\* the answers of a backend that sends long chains and bodies without a chain
HeavyResponses ==
    {[kind |-> "data", data |-> [error |-> "Not found"]],
     [kind |-> "data", data |-> BigChain]}

(***************************************************************************)
(* The loop of startScan.                                                  *)
(***************************************************************************)
\* the final sorting and ranking of startScan
topOpportunities(allOpportunities) ==
    Slice(SortByScoreDesc(allOpportunities), ScanCap)

\* a loop that gives the scan up when a symbol's fetch fails
FetchResolveAbort(sc, response) ==
    LET symbol == symbols[sc.i]
        got == fetchOptionsChain(symbol, response, sc.riskSettings)
        filtered == applyStrategyFilter(got.options, sc.selectedStrategy,
                                        sc.riskSettings)
        failure == IF got.error = "none" THEN <<>>
                   ELSE <<LogEntry("Failed to fetch options", got.error,
                                   sc.i, 0, "error")>>
        success == IF Len(filtered) > 0
                   THEN <<LogEntry("Found opportunities", "", sc.i, Len(filtered),
                                   "success")>>
                   ELSE <<>>
    IN  /\ sc.pc = "fetch"
        /\ [scan |-> sc.id, i |-> sc.i] \in requests
        /\ requests' = requests \ {[scan |-> sc.id, i |-> sc.i]}
        /\ scans' = IF got.error = "none"
                    THEN (scans \ {sc}) \cup
                           {[sc EXCEPT !.pc = "pause",
                                       !.allOpportunities = sc.allOpportunities \o filtered]}
                    ELSE scans \ {sc}
        /\ isScanning' = IF got.error = "none" THEN isScanning ELSE FALSE
        /\ activityLog' = LogAll(activityLog, failure \o success)
        /\ UNCHANGED <<symbols, authenticated, scanProgress, opportunities,
                       selectedStrategy, riskSettings, scanInterval,
                       scanIntervalRef, lastScanTime, sortColumn, sortDirection,
                       timers, clicks, edits, ticks, started, fnIn, fnOut, appVars, backendVars>>

\* a loop that publishes the opportunities found so far after every symbol
FetchResolvePartial(sc, response) ==
    LET symbol == symbols[sc.i]
        got == fetchOptionsChain(symbol, response, sc.riskSettings)
        filtered == applyStrategyFilter(got.options, sc.selectedStrategy,
                                        sc.riskSettings)
        failure == IF got.error = "none" THEN <<>>
                   ELSE <<LogEntry("Failed to fetch options", got.error,
                                   sc.i, 0, "error")>>
        success == IF Len(filtered) > 0
                   THEN <<LogEntry("Found opportunities", "", sc.i, Len(filtered),
                                   "success")>>
                   ELSE <<>>
    IN  /\ sc.pc = "fetch"
        /\ [scan |-> sc.id, i |-> sc.i] \in requests
        /\ requests' = requests \ {[scan |-> sc.id, i |-> sc.i]}
        /\ scans' = (scans \ {sc}) \cup
               {[sc EXCEPT !.pc = "pause",
                           !.allOpportunities = sc.allOpportunities \o filtered]}
        /\ opportunities' = topOpportunities(sc.allOpportunities \o filtered)
        /\ activityLog' = LogAll(activityLog, failure \o success)
        /\ UNCHANGED <<symbols, authenticated, isScanning, scanProgress,
                       selectedStrategy, riskSettings, scanInterval,
                       scanIntervalRef, lastScanTime, sortColumn, sortDirection,
                       timers, clicks, edits, ticks, started, fnIn, fnOut, appVars, backendVars>>

\* a loop whose fetch swallows a failure without logging it
FetchResolveSilent(sc, response) ==
    LET symbol == symbols[sc.i]
        got == fetchOptionsChain(symbol, response, sc.riskSettings)
        filtered == applyStrategyFilter(got.options, sc.selectedStrategy,
                                        sc.riskSettings)
        success == IF Len(filtered) > 0
                   THEN <<LogEntry("Found opportunities", "", sc.i, Len(filtered),
                                   "success")>>
                   ELSE <<>>
    IN  /\ sc.pc = "fetch"
        /\ [scan |-> sc.id, i |-> sc.i] \in requests
        /\ requests' = requests \ {[scan |-> sc.id, i |-> sc.i]}
        /\ scans' = (scans \ {sc}) \cup
               {[sc EXCEPT !.pc = "pause",
                           !.allOpportunities = sc.allOpportunities \o filtered]}
        /\ activityLog' = LogAll(activityLog, success)
        /\ UNCHANGED <<symbols, authenticated, isScanning, scanProgress, opportunities,
                       selectedStrategy, riskSettings, scanInterval,
                       scanIntervalRef, lastScanTime, sortColumn, sortDirection,
                       timers, clicks, edits, ticks, started, fnIn, fnOut, appVars, backendVars>>

\* a loop whose failed fetch is never settled: the scan keeps awaiting it
FetchResolveHang(sc, response) ==
    LET symbol == symbols[sc.i]
        got == fetchOptionsChain(symbol, response, sc.riskSettings)
        filtered == applyStrategyFilter(got.options, sc.selectedStrategy,
                                        sc.riskSettings)
        success == IF Len(filtered) > 0
                   THEN <<LogEntry("Found opportunities", "", sc.i, Len(filtered),
                                   "success")>>
                   ELSE <<>>
    IN  /\ sc.pc = "fetch"
        /\ [scan |-> sc.id, i |-> sc.i] \in requests
        /\ requests' = requests \ {[scan |-> sc.id, i |-> sc.i]}
        /\ scans' = IF got.error = "none"
                    THEN (scans \ {sc}) \cup
                           {[sc EXCEPT !.pc = "pause",
                                       !.allOpportunities = sc.allOpportunities \o filtered]}
                    ELSE scans
        /\ activityLog' = LogAll(activityLog, success)
        /\ UNCHANGED <<symbols, authenticated, isScanning, scanProgress, opportunities,
                       selectedStrategy, riskSettings, scanInterval,
                       scanIntervalRef, lastScanTime, sortColumn, sortDirection,
                       timers, clicks, edits, ticks, started, fnIn, fnOut, appVars, backendVars>>

\* the response of the request of scan sc arrives: the rest of
\* fetchOptionsChain, then lines 256-261 and the start of the 100 ms pause
FetchResolve(sc, response) ==
    LET symbol == symbols[sc.i]
        got == fetchOptionsChain(symbol, response, sc.riskSettings)
        filtered == applyStrategyFilter(got.options, sc.selectedStrategy,
                                        sc.riskSettings)
        failure == IF got.error = "none" THEN <<>>
                   ELSE <<LogEntry("Failed to fetch options", got.error,
                                   sc.i, 0, "error")>>
        success == IF Len(filtered) > 0
                   THEN <<LogEntry("Found opportunities", "", sc.i, Len(filtered),
                                   "success")>>
                   ELSE <<>>
    IN  /\ sc.pc = "fetch"
        /\ [scan |-> sc.id, i |-> sc.i] \in requests
        /\ requests' = requests \ {[scan |-> sc.id, i |-> sc.i]}
        /\ scans' = (scans \ {sc}) \cup
               {[sc EXCEPT !.pc = "pause",
                           !.allOpportunities = sc.allOpportunities \o filtered]}
        /\ activityLog' = LogAll(activityLog, failure \o success)
        /\ UNCHANGED <<symbols, authenticated, isScanning, scanProgress, opportunities,
                       selectedStrategy, riskSettings, scanInterval,
                       scanIntervalRef, lastScanTime, sortColumn, sortDirection,
                       timers, clicks, edits, ticks, started, fnIn, fnOut, appVars, backendVars>>

\* the 100 ms pause of scan sc is over: the next turn of the loop up to its
\* await, or lines 271-281 after the last symbol
PauseElapsed(sc) ==
    /\ sc.pc = "pause"
    /\ IF sc.i < totalSymbols
       THEN /\ scanProgress' = Progress(sc.i + 1)
            /\ activityLog' = addActivityLog(activityLog,
                                  LogEntry("Scanning", "", sc.i + 1, 0, "info"))
            /\ scans' = (scans \ {sc}) \cup
                   {[sc EXCEPT !.pc = "fetch", !.i = sc.i + 1]}
            /\ requests' = requests \cup {[scan |-> sc.id, i |-> sc.i + 1]}
            /\ UNCHANGED <<opportunities, lastScanTime, isScanning>>
       ELSE /\ opportunities' = topOpportunities(sc.allOpportunities)
            /\ lastScanTime' = sc.id
            /\ isScanning' = FALSE
            /\ scanProgress' = 100
            /\ activityLog' = addActivityLog(activityLog,
                                  LogEntry("Scan complete", "", 0,
                                           Len(topOpportunities(sc.allOpportunities)),
                                           "success"))
            /\ scans' = scans \ {sc}
            /\ UNCHANGED requests
    /\ UNCHANGED <<symbols, authenticated, selectedStrategy, riskSettings, scanInterval,
                   scanIntervalRef, sortColumn, sortDirection, timers, clicks,
                   edits, ticks, started, fnIn, fnOut, appVars, backendVars>>

(***************************************************************************)
(* The controls.                                                           *)
(***************************************************************************)
\* what the user types into the two number inputs: parseInt(e.target.value)
MaxOptionPriceInputs == {2, NaN}
MinVolumeInputs == {1000}

\* the strategies the user of the model selects
StrategyChoices == {"HIGH_MOMENTUM", "EARNINGS_PLAYS"}

\* the strategy select
SelectStrategy(strategy) ==
    /\ Edit
    /\ strategy # selectedStrategy
    /\ selectedStrategy' = strategy
    /\ UNCHANGED <<symbols, authenticated, riskSettings, scanInterval, scanIntervalRef,
                   activityLog, sortColumn, sortDirection, timers, ticks,
                   scanState, fnIn, fnOut, appVars, backendVars>>

\* the risk inputs: setRiskSettings(prev => ({...prev, <field>: parseInt(...)}))
SetRiskSettings(field, value) ==
    /\ Edit
    /\ riskSettings[field] # value
    /\ riskSettings' = [riskSettings EXCEPT ![field] = value]
    /\ UNCHANGED <<symbols, authenticated, selectedStrategy, scanInterval, scanIntervalRef,
                   activityLog, sortColumn, sortDirection, timers, ticks,
                   scanState, fnIn, fnOut, appVars, backendVars>>

\* the parent renders the component with another authStatus
AuthChange ==
    /\ Edit
    /\ authenticated' = ~authenticated
    /\ UNCHANGED <<symbols, selectedStrategy, riskSettings, scanInterval, scanIntervalRef,
                   activityLog, sortColumn, sortDirection, timers, ticks,
                   scanState, fnIn, fnOut, appVars, backendVars>>

\* a[column] || 0
ColumnValue(a, column) == OrZero(a[column])

\* the sort of handleSort.  Its comparator answers -1 for equal values
\* whatever the order of its arguments, so where equal values end up is up to
\* the engine; of the outcomes the model has the two regular ones: equal
\* values keep their order, or (tiesFirst) they end up reversed.
RECURSIVE ByColumn(_, _, _, _, _)
ByColumn(arr, keys, column, direction, tiesFirst) ==
    IF keys = {} THEN <<>>
    ELSE LET key == IF direction = "asc" THEN Min(keys) ELSE Max(keys)
             same == SelectSeq(arr, LAMBDA o : ColumnValue(o, column) = key)
         IN  (IF tiesFirst THEN Reverse(same) ELSE same)
                \o ByColumn(arr, keys \ {key}, column, direction, tiesFirst)

SortBy(arr, column, direction, tiesFirst) ==
    ByColumn(arr, {ColumnValue(arr[i], column) : i \in 1..Len(arr)},
             column, direction, tiesFirst)

\* the sortable column headers of the model
SortColumns == {"lceScore"}

handleSort(column, tiesFirst) ==
    LET direction == IF sortColumn = column /\ sortDirection = "desc"
                     THEN "asc" ELSE "desc"
    IN  /\ Edit
        /\ sortColumn' = column
        /\ sortDirection' = direction
        /\ opportunities' = SortBy(opportunities, column, direction, tiesFirst)
        /\ UNCHANGED <<symbols, authenticated, isScanning, scanProgress, selectedStrategy,
                       riskSettings, scanInterval, scanIntervalRef, lastScanTime,
                       activityLog, timers, scans, requests, ticks, started,
                       fnIn, fnOut, appVars, backendVars>>

\* no function has been applied on its own
NoCall == [called |-> FALSE]

Init ==
    /\ symbols = SubSeq(POPULAR_SYMBOLS, 1, NumSymbols)
    /\ ScannerInit
    /\ fnIn = NoCall
    /\ fnOut = NoCall
    /\ AppConstructed
    /\ BackendConstructed

Next ==
    \/ ClickStartScan
    \/ ClickRunScan
    \/ ClickStartLive
    \/ ClickStopLive
    \/ TimerTick
    \/ \E sc \in scans : \E response \in Responses : FetchResolve(sc, response)
    \/ \E sc \in scans : PauseElapsed(sc)
    \/ \E strategy \in StrategyChoices : SelectStrategy(strategy)
    \/ \E value \in MaxOptionPriceInputs : SetRiskSettings("maxOptionPrice", value)
    \/ \E value \in MinVolumeInputs : SetRiskSettings("minVolume", value)
    \/ AuthChange
    \/ \E column \in SortColumns : \E tiesFirst \in BOOLEAN :
          handleSort(column, tiesFirst)

Spec == Init /\ [][Next]_vars

(***************************************************************************)
(* The scanner against a backend that sends long chains and bodies without *)
(* a chain: scans started with the Start Scan button, one after another.   *)
(***************************************************************************)
RankInit ==
    /\ symbols = SubSeq(POPULAR_SYMBOLS, 1, RankSymbols)
    /\ ScannerInit
    /\ fnIn = NoCall
    /\ fnOut = NoCall
    /\ AppConstructed
    /\ BackendConstructed

RankNext ==
    \/ ClickStartScan
    \/ \E strategy \in StrategyChoices : SelectStrategy(strategy)
    \/ \E sc \in scans : \E response \in HeavyResponses : FetchResolve(sc, response)
    \/ \E sc \in scans : PauseElapsed(sc)

SpecRank == RankInit /\ [][RankNext]_vars

\* what a FetchResolve step does to the requests: the request of a scan that
\* awaits it is settled, with an answer or by the timeout of 30000 ms
RequestSettles ==
    \E sc \in scans :
        /\ sc.pc = "fetch"
        /\ [scan |-> sc.id, i |-> sc.i] \in requests
        /\ requests' = requests \ {[scan |-> sc.id, i |-> sc.i]}

\* what a PauseElapsed step does to the scans: the timer of 100 ms fires
PauseEnds ==
    \E sc \in scans :
        /\ sc.pc = "pause"
        /\ scans' = (scans \ {sc}) \cup
               (IF sc.i < totalSymbols
                THEN {[sc EXCEPT !.pc = "fetch", !.i = sc.i + 1]} ELSE {})

\* every request is settled in the end and every pause elapses
RankFairness == WF_requests(RequestSettles) /\ WF_scans(PauseEnds)

SpecRankFair == RankInit /\ [][RankNext]_vars /\ RankFairness

(***************************************************************************)
(* The scanner walking the whole of POPULAR_SYMBOLS, every request answered *)
(* with the same short chain.                                              *)
(***************************************************************************)
SymbolsInit ==
    /\ symbols = POPULAR_SYMBOLS
    /\ ScannerInit
    /\ fnIn = NoCall
    /\ fnOut = NoCall
    /\ AppConstructed
    /\ BackendConstructed

SymbolsNext ==
    \/ ClickStartScan
    \/ \E strategy \in StrategyChoices : SelectStrategy(strategy)
    \/ \E sc \in scans : FetchResolve(sc, [kind |-> "data", data |-> SmallChain])
    \/ \E sc \in scans : PauseElapsed(sc)

SpecSymbols == SymbolsInit /\ [][SymbolsNext]_vars

(***************************************************************************)
(* The scanner as the application mounts it.  EnhancedApp (EnhancedApp.js) *)
(* renders <OptionsScanner apiUrl={API_BASE_URL} /> while its own          *)
(* authStatus is authenticated and the scanner tab is active; it passes no *)
(* authStatus prop, so inside the scanner authStatus?.authenticated is     *)
(* undefined.  The Start Scan and the live button are then disabled; the   *)
(* Run Scan button and the controls are not.                               *)
(***************************************************************************)
\* the tabs of the tab navigation
Tabs == {"scanner", "quotes", "watchlist", "positions", "trading", "options"}

\* EnhancedApp renders the OptionsScanner
Mounted == AppAuthenticated /\ activeTab = "scanner"

\* a newly mounted OptionsScanner: its state as constructed, its prop absent
MountScanner ==
    /\ authenticated' = FALSE
    /\ isScanning' = FALSE
    /\ scanProgress' = 0
    /\ opportunities' = <<>>
    /\ selectedStrategy' = "HIGH_MOMENTUM"
    /\ riskSettings' = DefaultRiskSettings
    /\ scanInterval' = Undefined
    /\ scanIntervalRef' = Undefined
    /\ lastScanTime' = Undefined
    /\ activityLog' = <<>>
    /\ sortColumn' = "lceScore"
    /\ sortDirection' = "desc"

\* the state of a mounted OptionsScanner
componentState ==
    <<authenticated, isScanning, scanProgress, opportunities, selectedStrategy,
      riskSettings, scanInterval, scanIntervalRef, lastScanTime, activityLog,
      sortColumn, sortDirection>>

\* checkAuthStatus of EnhancedApp: setAuthStatus(response.data), or
\* setAuthStatus({authenticated: false}) when the request fails
checkAuthStatus(result) ==
    /\ appAuthStatus' = <<[authenticated |-> result]>>
    /\ UNCHANGED activeTab
    /\ IF Mounted # (result /\ activeTab = "scanner")
       THEN MountScanner ELSE UNCHANGED componentState
    /\ UNCHANGED <<symbols, timers, scans, requests, clicks, edits, ticks,
                   started, fnIn, fnOut, backendVars>>

\* a tab button, rendered while the application is authenticated
setActiveTab(tab) ==
    /\ AppAuthenticated
    /\ activeTab' = tab
    /\ UNCHANGED appAuthStatus
    /\ IF Mounted # (tab = "scanner")
       THEN MountScanner ELSE UNCHANGED componentState
    /\ UNCHANGED <<symbols, timers, scans, requests, clicks, edits, ticks,
                   started, fnIn, fnOut, backendVars>>

AppInit ==
    /\ symbols = SubSeq(POPULAR_SYMBOLS, 1, NumSymbols)
    /\ ScannerInit
    /\ authenticated = FALSE
    /\ fnIn = NoCall
    /\ fnOut = NoCall
    /\ AppConstructed
    /\ BackendConstructed

AppNext ==
    \/ \E result \in BOOLEAN : checkAuthStatus(result)
    \/ \E tab \in Tabs : setActiveTab(tab)
    \/ Mounted /\ ClickRunScan
    \/ Mounted /\ \E strategy \in StrategyChoices : SelectStrategy(strategy)
    \/ Mounted /\ \E value \in MaxOptionPriceInputs :
                      SetRiskSettings("maxOptionPrice", value)
    \/ Mounted /\ \E value \in MinVolumeInputs : SetRiskSettings("minVolume", value)
    \/ Mounted /\ \E column \in SortColumns : \E tiesFirst \in BOOLEAN :
                      handleSort(column, tiesFirst)

SpecApp == AppInit /\ [][AppNext]_vars

(***************************************************************************)
(* The scanner with live scanning, unmounted by its parent.  EnhancedApp   *)
(* renders it only while activeTab === 'scanner'; when the user selects    *)
(* another tab React unmounts it.  The component registers no cleanup (its *)
(* only effect, lines 58-63, returns nothing), so unmounting runs no code  *)
(* of the component: the interval and the scans in progress stay.  The     *)
(* state setters of an unmounted component have no effect on what is       *)
(* rendered; the model keeps the values they were last given.              *)
(***************************************************************************)
Unmount(tab) ==
    /\ activeTab = "scanner"
    /\ tab # "scanner"
    /\ activeTab' = tab
    /\ UNCHANGED <<scannerVars, fnIn, fnOut, appAuthStatus, backendVars>>

UnmountNext ==
    \/ activeTab = "scanner" /\ ClickStartLive
    \/ activeTab = "scanner" /\ ClickStopLive
    \/ TimerTick
    \/ \E sc \in scans : \E response \in Responses : FetchResolve(sc, response)
    \/ \E sc \in scans : PauseElapsed(sc)
    \/ \E tab \in Tabs : Unmount(tab)

SpecUnmount == Init /\ [][UnmountNext]_vars

(***************************************************************************)
(* The pure functions, each applied on its own to an argument drawn from a *)
(* bounded set; the scanner stays as constructed.                          *)
(***************************************************************************)
IdleScanner ==
    /\ symbols = SubSeq(POPULAR_SYMBOLS, 1, NumSymbols)
    /\ ScannerInit
    /\ authenticated = FALSE
    /\ AppConstructed
    /\ BackendConstructed

\* quotes <<bid, ask>> in half-cents: absent, zero, 2.00/2.50, the spread
\* percentages 3, 5, 10, 15 and 25 and the next larger ones, ask < bid, and
\* quotes below zero
QuotePairs ==
    {<<Undefined, Undefined>>, <<0, 0>>, <<Undefined, 200>>, <<400, 500>>,
     <<394, 406>>, <<394, 408>>, <<390, 410>>, <<388, 412>>, <<380, 420>>,
     <<378, 422>>, <<370, 430>>, <<368, 432>>, <<350, 450>>, <<348, 452>>,
     <<500, 400>>, <<-600, 200>>, <<-200, 200>>}

VolumeInputs == {Undefined, 0, 49, 50, 99, 100, 499, 500, 999, 1000, 1200}
VolatilityInputs == {Undefined, 0, 35}
TimeValueInputs == {Undefined, 0, -40, 2, 8, 100, 450, 1000}

ScoreInputs ==
    {[bid |-> q[1], ask |-> q[2], totalVolume |-> v, volatility |-> iv,
      timeValue |-> tv] :
        q \in QuotePairs, v \in VolumeInputs, iv \in VolatilityInputs,
        tv \in TimeValueInputs}

ScoreInit ==
    /\ IdleScanner
    /\ fnIn \in {[fn |-> "calculateLCEScore", option |-> o] : o \in ScoreInputs}
    /\ fnOut = NoCall

CallScore ==
    /\ fnOut = NoCall
    /\ fnIn.fn = "calculateLCEScore"
    /\ fnOut' = [called |-> TRUE, value |-> calculateLCEScore(fnIn.option)]
    /\ UNCHANGED <<scannerVars, fnIn, appVars, backendVars>>

SpecScore == ScoreInit /\ [][CallScore]_vars

\* fetchOptionsChain on a chain of one contract (a call or a put), on the
\* other responses, and under the risk settings the inputs can produce
DiffHoursInputs == {NaN, -10, 144, 145, 168, 1080, 1081}

NormVolumeInputs == {Undefined, 0, 499, 500, 999, 1000, 1200}

NormContracts ==
    {Contract(q[1], q[2], v, 50, 2, -8, 35, tv) :
        q \in QuotePairs, v \in NormVolumeInputs, tv \in {Undefined, 100}}

OneContractChains ==
    {[callExpDateMap |-> <<DateEntry(1, h, <<Strike(100, <<c>>)>>)>>] :
        c \in NormContracts, h \in DiffHoursInputs}
    \cup
    {[putExpDateMap |-> <<DateEntry(1, 230, <<Strike(100, <<c>>)>>)>>] :
        c \in NormContracts}

NormResponses ==
    {[kind |-> "data", data |-> d] : d \in OneContractChains}
    \cup {[kind |-> "data", data |-> SmallChain],
          [kind |-> "data", data |-> MalformedChain],
          [kind |-> "data", data |-> [error |-> "Not found"]],
          [kind |-> "data", data |->
              [callExpDateMap |-> <<DateEntry(1, 230, <<Strike(100, <<>>)>>)>>]],
          [kind |-> "null"],
          [kind |-> "error", message |-> "Request failed with status code 429"]}

RiskInputs ==
    {[DefaultRiskSettings EXCEPT !.maxOptionPrice = p, !.minVolume = v] :
        p \in {500} \cup MaxOptionPriceInputs,
        v \in {0, 500, NaN} \cup MinVolumeInputs}

NormInit ==
    /\ IdleScanner
    /\ fnIn \in {[fn |-> "fetchOptionsChain", symbol |-> "SPY", response |-> r,
                  riskSettings |-> rs] : r \in NormResponses, rs \in RiskInputs}
    /\ fnOut = NoCall

CallFetch ==
    /\ fnOut = NoCall
    /\ fnIn.fn = "fetchOptionsChain"
    /\ fnOut' = [called |-> TRUE,
                 value |-> fetchOptionsChain(fnIn.symbol, fnIn.response,
                                             fnIn.riskSettings)]
    /\ UNCHANGED <<scannerVars, fnIn, appVars, backendVars>>

SpecNorm == NormInit /\ [][CallFetch]_vars

\* applyStrategyFilter on lists of one and two opportunities whose fields
\* lie on both sides of every threshold of the five predicates
Opportunity(delta, totalVolume, lceScore, premium, volatility, gamma, daysToExpiry, theta) ==
    [symbol |-> "SPY", type |-> "CALL", strike |-> 100, premium |-> premium,
     bid |-> premium, ask |-> premium, volume |-> totalVolume,
     totalVolume |-> totalVolume, delta |-> delta, gamma |-> gamma,
     theta |-> theta, volatility |-> volatility, timeValue |-> 0,
     daysToExpiry |-> daysToExpiry, expDate |-> 1, lceScore |-> lceScore,
     liquidity |-> Liquidity(totalVolume)]

FilterOpportunities ==
    {Opportunity(d, v, 50, 300, 35, 2, 10, -8) :
        d \in {0, 29, 30, 40, 41, -29, -30, -40, -41},
        v \in {499, 500, 999, 1000, 1200}}
    \cup {Opportunity(50, 1200, sc, p, 35, 2, 10, -8) :
            sc \in {69, 70, 71}, p \in {399, 400, 401}}
    \cup {Opportunity(50, 1200, 50, 300, iv, g, 10, -8) :
            iv \in {0, 30, 31}, g \in {0, 1, 2}}
    \cup {Opportunity(50, v, 50, 300, 35, 2, dte, -8) :
            v \in {999, 1000, 1200, 5000}, dte \in {10, 14, 15, 20}}
    \cup {Opportunity(d, 1200, 50, 300, 35, 2, 10, th) :
            d \in {0, 29, 30, -30}, th \in {0, -5, -6}}

\* a list longer than the 50 the filter returns, all scores different
LongList ==
    [k \in 1..BigChainStrikes |->
        Opportunity(50, 1200, (k * 37) % 101, 300, 35, 2, 10, -8)]

FilterLists ==
    {<<o>> : o \in FilterOpportunities}
    \cup {<<Opportunity(50, 1200, 80, 300, 35, 2, 10, -8), o>> :
            o \in FilterOpportunities}
    \cup {LongList}

FilterInit ==
    /\ IdleScanner
    /\ fnIn \in {[fn |-> "applyStrategyFilter", options |-> l, strategy |-> st,
                  riskSettings |-> rs] :
                    l \in FilterLists,
                    st \in TRADING_STRATEGIES \cup {"UNKNOWN"},
                    rs \in {[DefaultRiskSettings EXCEPT !.maxOptionPrice = p] :
                                p \in MaxOptionPriceInputs}}
    /\ fnOut = NoCall

CallFilter ==
    /\ fnOut = NoCall
    /\ fnIn.fn = "applyStrategyFilter"
    /\ fnOut' = [called |-> TRUE,
                 value |-> applyStrategyFilter(fnIn.options, fnIn.strategy,
                                               fnIn.riskSettings)]
    /\ UNCHANGED <<scannerVars, fnIn, appVars, backendVars>>

SpecFilter == FilterInit /\ [][CallFilter]_vars

\* addActivityLog called again and again on a log that starts empty.  The
\* n-th call logs an entry with id n; the first TypedCalls calls pass any
\* type, the later ones leave it at its default.  fnIn keeps every entry
\* that was logged, oldest first.
MaxLogged == 103
TypedCalls == 2
LogTypes == {"info", "success", "error"}

LogInit ==
    /\ IdleScanner
    /\ fnIn = [fn |-> "addActivityLog", logged |-> <<>>]
    /\ fnOut = NoCall

CallLog(type) ==
    LET n == Len(fnIn.logged) + 1
        entry == LogEntry("message", "", 0, n, type)
    IN  /\ n <= MaxLogged
        /\ n > TypedCalls => type = "info"
        /\ activityLog' = addActivityLog(activityLog, entry)
        /\ fnIn' = [fnIn EXCEPT !.logged = Append(fnIn.logged, entry)]
        /\ UNCHANGED <<symbols, authenticated, isScanning, scanProgress,
                       opportunities, selectedStrategy, riskSettings, scanInterval,
                       scanIntervalRef, lastScanTime, sortColumn, sortDirection,
                       timers, scans, requests, clicks, edits, ticks, started,
                       fnOut, appVars, backendVars>>

SpecLog == LogInit /\ [][\E type \in LogTypes : CallLog(type)]_vars

(***************************************************************************)
(* The backend's SchwabAPIService (services/schwabApi.js) with its         *)
(* TokenManager (utils/tokenManager.js).  The token file holds the token   *)
(* data or is absent; encryption is a round trip and the file system does  *)
(* what it is asked, except that storeTokens may fail (it throws then).    *)
(* Times are in ms.  A call of the service runs from start to end without  *)
(* another call in between, at one value of the clock.                     *)
(***************************************************************************)
\* getTokenInfo of a missing file: every field null
NoTokenInfo == [accessToken |-> Undefined, refreshToken |-> Undefined,
                expiresAt |-> Undefined]

getTokenInfo(file) == IF file = <<>> THEN NoTokenInfo ELSE file[1]

\* storeTokens at time t: the file then holds the token data
storeTokens(tokens, t) ==
    <<[accessToken |-> tokens.access_token,
       refreshToken |-> tokens.refresh_token,
       expiresAt |-> t + tokens.expires_in * 1000]>>

\* clearTokens: fs.unlink of the token file
clearTokens == <<>>

\* an Error with its message and its status property (Undefined: none)
Error(message, status) == [message |-> message, status |-> status]

\* the refresh token the provider gave
TheRefreshToken == 1

\* expires_in of the provider's token responses, in seconds
ExpiresIn == {1800}

\* how the provider answers a token request, and whether storeTokens then
\* succeeds: ok, rejected (!response.ok), failed (fetch rejects)
TokenAnswers ==
    {[kind |-> "ok", expires_in |-> e, stored |-> b] :
        e \in ExpiresIn, b \in BOOLEAN}
    \cup {[kind |-> k, expires_in |-> 0, stored |-> FALSE] :
            k \in {"rejected", "failed"}}

\* the tokens of the provider's n-th token response
Tokens(n, answer) ==
    [access_token |-> n, refresh_token |-> TheRefreshToken,
     expires_in |-> answer.expires_in]

\* refreshAccessToken at time t, n access tokens issued so far: whether it
\* threw, the error, the file and the number of tokens issued afterwards
refreshAccessToken(file, t, answer, n) ==
    IF ~Truthy(getTokenInfo(file).refreshToken)
    THEN [threw |-> TRUE, file |-> file, issued |-> n,
          error |-> Error("No refresh token available. Re-authentication required.",
                          Undefined)]
    ELSE IF answer.kind = "failed"
    THEN [threw |-> TRUE, file |-> file, issued |-> n,
          error |-> Error("fetch failed", Undefined)]
    ELSE IF answer.kind = "rejected"
    THEN [threw |-> TRUE, file |-> clearTokens, issued |-> n,
          error |-> Error("Token refresh failed. Re-authentication required.",
                          Undefined)]
    ELSE IF ~answer.stored
    THEN [threw |-> TRUE, file |-> file, issued |-> n + 1,
          error |-> Error("Failed to store authentication tokens", Undefined)]
    ELSE [threw |-> FALSE, file |-> storeTokens(Tokens(n + 1, answer), t),
          issued |-> n + 1, error |-> Error("", Undefined)]

\* an ensureValidToken that goes on with the stored token when the refresh
\* fails
ensureValidTokenLenient(file, t, answer, n) ==
    LET tokenInfo == getTokenInfo(file)
        refreshed == refreshAccessToken(file, t, answer, n)
    IN  IF ~Truthy(tokenInfo.accessToken)
        THEN [threw |-> TRUE, file |-> file, issued |-> n,
              tokenInfo |-> NoTokenInfo,
              error |-> Error("No access token available. Authentication required.",
                              Undefined)]
        ELSE IF Truthy(tokenInfo.expiresAt) /\ tokenInfo.expiresAt - t < 300000
        THEN IF refreshed.threw
             THEN [threw |-> FALSE, file |-> file, issued |-> refreshed.issued,
                   tokenInfo |-> tokenInfo, error |-> Error("", Undefined)]
             ELSE [threw |-> FALSE, file |-> refreshed.file,
                   issued |-> refreshed.issued,
                   tokenInfo |-> getTokenInfo(refreshed.file),
                   error |-> Error("", Undefined)]
        ELSE [threw |-> FALSE, file |-> file, issued |-> n,
              tokenInfo |-> tokenInfo, error |-> Error("", Undefined)]

\* ensureValidToken at time t: whether it threw, the error, the token info
\* it returns, the file and the number of tokens issued afterwards
ensureValidToken(file, t, answer, n) ==
    LET tokenInfo == getTokenInfo(file)
        refreshed == refreshAccessToken(file, t, answer, n)
    IN  IF ~Truthy(tokenInfo.accessToken)
        THEN [threw |-> TRUE, file |-> file, issued |-> n,
              tokenInfo |-> NoTokenInfo,
              error |-> Error("No access token available. Authentication required.",
                              Undefined)]
        ELSE IF Truthy(tokenInfo.expiresAt) /\ tokenInfo.expiresAt - t < 300000
        THEN IF refreshed.threw
             THEN [threw |-> TRUE, file |-> refreshed.file,
                   issued |-> refreshed.issued, tokenInfo |-> NoTokenInfo,
                   error |-> refreshed.error]
             ELSE [threw |-> FALSE, file |-> refreshed.file,
                   issued |-> refreshed.issued,
                   tokenInfo |-> getTokenInfo(refreshed.file),
                   error |-> Error("", Undefined)]
        ELSE [threw |-> FALSE, file |-> file, issued |-> n,
              tokenInfo |-> tokenInfo, error |-> Error("", Undefined)]

\* isAuthenticated at time t
isAuthenticated(file, t) ==
    LET tokenInfo == getTokenInfo(file)
    IN  /\ Truthy(tokenInfo.accessToken)
        /\ tokenInfo.expiresAt # Undefined
        /\ tokenInfo.expiresAt > t

\* the statuses the upstream answers a request with; Undefined: fetch rejects
Statuses == {200, 401, 429, 500, Undefined}

\* the body the upstream sends at time t
Data(t) == [servedAt |-> t]

\* makeRequest before its loop: the cache check, lastError undefined (<<>>)
StartRequest(cached, call) ==
    LET st == [called |-> FALSE, fn |-> "makeRequest", attempt |-> 0,
               lastError |-> <<>>, fetches |-> 0, sent |-> <<>>,
               answers |-> <<>>, outcome |-> "none", data |-> Data(Undefined)]
    IN  IF /\ call.method = "GET" /\ call.cacheSeconds > 0
           /\ cached # <<>>
           /\ call.at - cached[1].timestamp < call.cacheSeconds * 1000
        THEN [st EXCEPT !.called = TRUE, !.outcome = "return",
                        !.data = cached[1].data]
        ELSE st

\* one turn of the loop of makeRequest at time t: ensureValidToken, the
\* fetch answered with `status`, and what follows up to the next turn, the
\* return or the throw after the loop.  The result has the loop's state
\* (st: attempt, lastError, the fetches made and the access tokens they
\* carried), the file, the cache and the number of tokens issued.
Attempt(st, call, file, cached, n, t, status, refresh) ==
    LET valid == ensureValidToken(file, t, refresh, n)
        fetched == [st EXCEPT !.fetches = @ + 1,
                              !.sent = Append(@, valid.tokenInfo.accessToken),
                              !.answers = Append(@, status)]
        \* for (...; attempt++) and, after the loop, throw lastError
        continue(s) ==
            IF s.attempt + 1 > call.retries
            THEN [s EXCEPT !.attempt = @ + 1, !.called = TRUE, !.outcome = "throw"]
            ELSE [s EXCEPT !.attempt = @ + 1]
        \* the catch block
        caught(s, error) ==
            IF s.attempt = call.retries
            THEN [s EXCEPT !.lastError = <<error>>, !.called = TRUE,
                           !.outcome = "throw"]
            ELSE continue([s EXCEPT !.lastError = <<error>>])
    IN  IF valid.threw
        THEN [st |-> caught(st, valid.error), file |-> valid.file,
              cache |-> cached, issued |-> valid.issued]
        ELSE IF status = Undefined
        THEN [st |-> caught(fetched, Error("fetch failed", Undefined)),
              file |-> valid.file, cache |-> cached, issued |-> valid.issued]
        ELSE IF status = 401 /\ st.attempt < call.retries
        THEN [st |-> continue(fetched), file |-> clearTokens,
              cache |-> cached, issued |-> valid.issued]
        ELSE IF status = 429
        THEN [st |-> continue(fetched), file |-> valid.file,
              cache |-> cached, issued |-> valid.issued]
        ELSE IF status # 200
        THEN [st |-> caught(fetched, Error("API request failed", status)),
              file |-> valid.file, cache |-> cached, issued |-> valid.issued]
        ELSE [st |-> [fetched EXCEPT !.called = TRUE, !.outcome = "return",
                                     !.data = Data(t)],
              file |-> valid.file, issued |-> valid.issued,
              cache |-> IF call.method = "GET" /\ call.cacheSeconds > 0
                        THEN <<[data |-> Data(t), timestamp |-> t]>>
                        ELSE cached]

\* the values of the backend's clock
ClockValues == {1000000, 1010000, 1320000}

\* token data a file left by an earlier run holds at the first clock value
\* (the first access token the provider issued): expired, expiring within 5
\* minutes, valid for long
StoredTokenData ==
    {[accessToken |-> 1, refreshToken |-> TheRefreshToken, expiresAt |-> e] :
        e \in {990000, 1100000, 2800000}}

\* access tokens the provider issues in the model
MaxIssued == 3

\* the arguments of makeRequest in the model
Methods == {"GET", "POST"}
RetriesInputs == {1, 2}
CacheSecondsInputs == {0, 15}

\* the service's own variables are the token file, the cache, the clock and
\* the tokens issued; everything else stays as constructed
ApiInit ==
    /\ symbols = SubSeq(POPULAR_SYMBOLS, 1, NumSymbols)
    /\ ScannerInit
    /\ authenticated = FALSE
    /\ AppConstructed
    /\ tokenFile \in {<<>>} \cup {<<d>> : d \in StoredTokenData}
    /\ cache = <<>>
    /\ now = 1000000
    /\ issued = IF tokenFile = <<>> THEN 0 ELSE 1
    /\ marketData = NoConfig
    /\ trading = NoConfig
    /\ fnIn = NoCall
    /\ fnOut = NoCall

\* a makeRequest is between two turns of its loop
Running == fnOut # NoCall /\ ~fnOut.called

\* time passes
ClockAdvance ==
    /\ \E t \in ClockValues : t > now /\ now' = t
    /\ UNCHANGED <<scannerVars, fnIn, fnOut, appVars, tokenFile, cache, issued,
                   marketData, trading>>

\* a call of makeRequest up to its loop
CallMakeRequest(method, retries, cacheSeconds) ==
    LET call == [fn |-> "makeRequest", method |-> method, retries |-> retries,
                 cacheSeconds |-> cacheSeconds, at |-> now, before |-> tokenFile,
                 cachedBefore |-> cache]
    IN  /\ ~Running
        /\ fnIn' = call
        /\ fnOut' = StartRequest(cache, call)
        /\ UNCHANGED <<scannerVars, appVars, backendVars>>

\* the next turn of the loop of the makeRequest that runs
RequestAttempt(status, refresh) ==
    LET r == Attempt(fnOut, fnIn, tokenFile, cache, issued, now, status, refresh)
    IN  /\ Running
        /\ r.issued <= MaxIssued
        /\ fnOut' = r.st
        /\ tokenFile' = r.file
        /\ cache' = r.cache
        /\ issued' = r.issued
        /\ UNCHANGED <<scannerVars, appVars, fnIn, now, marketData, trading>>

CallEnsureValidToken(refresh) ==
    LET r == ensureValidToken(tokenFile, now, refresh, issued)
    IN  /\ ~Running
        /\ r.issued <= MaxIssued
        /\ fnIn' = [fn |-> "ensureValidToken", refresh |-> refresh, at |-> now,
                    before |-> tokenFile]
        /\ fnOut' = [called |-> TRUE, fn |-> "ensureValidToken", threw |-> r.threw,
                     tokenInfo |-> r.tokenInfo, error |-> r.error]
        /\ tokenFile' = r.file
        /\ issued' = r.issued
        /\ UNCHANGED <<scannerVars, appVars, cache, now, marketData, trading>>

\* exchangeCodeForTokens: the provider's answer to the authorization code
CallExchangeCodeForTokens(answer) ==
    /\ ~Running
    /\ issued < MaxIssued
    /\ fnIn' = [fn |-> "exchangeCodeForTokens", answer |-> answer, at |-> now,
                before |-> tokenFile]
    /\ fnOut' = [called |-> TRUE, fn |-> "exchangeCodeForTokens",
                 threw |-> ~(answer.kind = "ok" /\ answer.stored)]
    /\ tokenFile' = IF answer.kind = "ok" /\ answer.stored
                    THEN storeTokens(Tokens(issued + 1, answer), now)
                    ELSE tokenFile
    /\ issued' = IF answer.kind = "ok" THEN issued + 1 ELSE issued
    /\ UNCHANGED <<scannerVars, appVars, cache, now, marketData, trading>>

CallLogout ==
    /\ ~Running
    /\ fnIn' = [fn |-> "logout", at |-> now, before |-> tokenFile]
    /\ fnOut' = [called |-> TRUE, fn |-> "logout"]
    /\ tokenFile' = clearTokens
    /\ UNCHANGED <<scannerVars, appVars, cache, now, issued, marketData, trading>>

ApiNext ==
    \/ ClockAdvance
    \/ \E method \in Methods, retries \in RetriesInputs,
          cacheSeconds \in CacheSecondsInputs :
             CallMakeRequest(method, retries, cacheSeconds)
    \/ \E status \in Statuses, refresh \in TokenAnswers :
          RequestAttempt(status, refresh)
    \/ \E refresh \in TokenAnswers : CallEnsureValidToken(refresh)
    \/ \E answer \in TokenAnswers : CallExchangeCodeForTokens(answer)
    \/ CallLogout

SpecApi == ApiInit /\ [][ApiNext]_vars

(***************************************************************************)
(* SchwabDualAuth: one config (accessToken, refreshToken, tokenExpiry) for *)
(* the Market Data service and one for Accounts & Trading, kept in memory. *)
(***************************************************************************)
\* the names of the two services
Services == {"marketData", "trading"}

\* a selection that takes the Market Data config whatever the service
SelectAlwaysMarketData(service) == "marketData"

\* service === 'marketData' ? this.marketData : this.trading
Select(service) == IF service = "marketData" THEN "marketData" ELSE "trading"

\* the config the service's methods work on
Config(service) == IF Select(service) = "marketData" THEN marketData ELSE trading

\* the methods assign fields of the selected config
SetConfig(service, config) ==
    IF Select(service) = "marketData"
    THEN marketData' = config /\ UNCHANGED trading
    ELSE trading' = config /\ UNCHANGED marketData

\* isAuthenticated(service)
DualIsAuthenticated(config, t) ==
    /\ config.accessToken # Undefined
    /\ Truthy(config.tokenExpiry)
    /\ config.tokenExpiry > t

\* exchangeCodeForToken(authorizationCode, service)
DualExchangeCodeForToken(service, answer) ==
    /\ issued < MaxIssued
    /\ fnIn' = [fn |-> "exchangeCodeForToken", service |-> service,
                answer |-> answer.kind]
    /\ fnOut' = [called |-> TRUE, threw |-> answer.kind # "ok"]
    /\ IF answer.kind = "ok"
       THEN /\ SetConfig(service,
                   [accessToken |-> issued + 1, refreshToken |-> issued + 1,
                    tokenExpiry |-> now + answer.expires_in * 1000])
            /\ issued' = issued + 1
       ELSE UNCHANGED <<marketData, trading, issued>>
    /\ UNCHANGED <<scannerVars, appVars, tokenFile, cache, now>>

\* refreshAccessToken(service)
DualRefreshAccessToken(service, answer) ==
    LET config == Config(service)
        ok == Truthy(config.refreshToken) /\ answer.kind = "ok"
    IN  /\ issued < MaxIssued
        /\ fnIn' = [fn |-> "refreshAccessToken", service |-> service,
                    answer |-> answer.kind]
        /\ fnOut' = [called |-> TRUE, threw |-> ~ok]
        /\ IF ok
           THEN /\ SetConfig(service,
                       [config EXCEPT
                          !.accessToken = issued + 1,
                          !.tokenExpiry = now + answer.expires_in * 1000])
                /\ issued' = issued + 1
           ELSE UNCHANGED <<marketData, trading, issued>>
        /\ UNCHANGED <<scannerVars, appVars, tokenFile, cache, now>>

\* logout(service)
DualLogout(service) ==
    /\ fnIn' = [fn |-> "logout", service |-> service, answer |-> "none"]
    /\ fnOut' = [called |-> TRUE, threw |-> FALSE]
    /\ SetConfig(service, NoConfig)
    /\ UNCHANGED <<scannerVars, appVars, tokenFile, cache, now, issued>>

DualInit ==
    /\ symbols = SubSeq(POPULAR_SYMBOLS, 1, NumSymbols)
    /\ ScannerInit
    /\ authenticated = FALSE
    /\ AppConstructed
    /\ tokenFile = <<>>
    /\ cache = <<>>
    /\ now = 1000000
    /\ issued = 0
    /\ marketData = NoConfig
    /\ trading = NoConfig
    /\ fnIn = NoCall
    /\ fnOut = NoCall

\* the answers of the token endpoint: storing is an assignment here
DualAnswers == {a \in TokenAnswers : ~a.stored}

DualNext ==
    \/ ClockAdvance
    \/ \E service \in Services, answer \in DualAnswers :
          DualExchangeCodeForToken(service, answer)
    \/ \E service \in Services, answer \in DualAnswers :
          DualRefreshAccessToken(service, answer)
    \/ \E service \in Services : DualLogout(service)

SpecDual == DualInit /\ [][DualNext]_vars

(***************************************************************************)
(* Properties of the scan orchestration.                                   *)
(***************************************************************************)
\* the ids of the scans of a set of scan records
ScanIds(S) == {sc.id : sc \in S}

\* the record of scan id in S
ScanOf(S, id) == CHOOSE sc \in S : sc.id = id

\* a is a prefix of b
IsPrefix(a, b) == Len(a) <= Len(b) /\ SubSeq(b, 1, Len(a)) = a

\* a and b hold the same elements, each as often
IsPermutation(a, b) ==
    /\ Len(a) = Len(b)
    /\ \A k \in 1..Len(a) :
          Cardinality({j \in 1..Len(a) : a[j] = a[k]})
              = Cardinality({j \in 1..Len(b) : b[j] = a[k]})

\* seq is in non-increasing order of lceScore
SortedDesc(seq) ==
    \A k \in 1..(Len(seq) - 1) : seq[k].lceScore >= seq[k + 1].lceScore

\* the positions of the log entries with the given message
LogPositions(message) ==
    {k \in 1..Len(activityLog) : activityLog[k].message = message}

\* C1: at most one scan is active at any moment, whatever the interleaving
\* of button clicks and timer ticks.
C1_AtMostOneScan == Cardinality(scans) <= 1

\* C2: a symbol whose fetch fails does not abort the scan: a scan advances
\* one symbol at a time, requests the chain of every symbol it advances to,
\* never loses an opportunity it has accumulated, returns only after the
\* last symbol, and then everything it accumulated (up to the cap of 100) is
\* in the stored result.
C2_FailureDoesNotAbort ==
    [][\A sc \in scans :
          IF sc.id \in ScanIds(scans')
          THEN LET t == ScanOf(scans', sc.id)
               IN  /\ IsPrefix(sc.allOpportunities, t.allOpportunities)
                   /\ t.i \in {sc.i, sc.i + 1}
                   /\ t.i = sc.i + 1 => [scan |-> sc.id, i |-> t.i] \in requests'
          ELSE /\ sc.i = totalSymbols /\ sc.pc = "pause"
               /\ Len(sc.allOpportunities) <= 100 =>
                     IsPermutation(opportunities', sc.allOpportunities)
      ]_vars

\* a single scan has completed with opportunities from symbol 1 although
\* the fetch of its last symbol failed
C2_Witness ==
    /\ started = 1 /\ scans = {} /\ lastScanTime = 1
    /\ Len(opportunities) > 0
    /\ \E k \in LogPositions("Failed to fetch options") :
          activityLog[k].sym = totalSymbols
    /\ \E k \in LogPositions("Found opportunities") : activityLog[k].sym = 1

\* C3 as stated: once live scanning is stopped, a scan that is running
\* starts no further symbol.  In the log: no "Scanning" entry is newer than
\* a "Live scanning stopped" entry unless a scan was started after the stop.
C3_CancelStopsScan ==
    \A k \in LogPositions("Live scanning stopped") :
        (\A m \in 1..(k - 1) : activityLog[m].message # "Starting scan")
            => \A j \in 1..(k - 1) : activityLog[j].message # "Scanning"

\* C3, amended: stopLiveScanning clears the periodic timer and nothing
\* else: the scans that run, their requests in flight and isScanning are
\* left as they are; a scan returns only after its last symbol, and
\* isScanning falls only when a scan returns.
C3_StopOnlyClearsTimer ==
    [][/\ (scanInterval # Undefined /\ scanInterval' = Undefined) =>
             /\ scans' = scans /\ requests' = requests
             /\ isScanning' = isScanning
             /\ \A t \in timers' : t.id # scanInterval
       /\ \A sc \in scans :
             sc.id \notin ScanIds(scans') => sc.i = totalSymbols /\ sc.pc = "pause"
       /\ (isScanning /\ ~isScanning') => ScanIds(scans) # ScanIds(scans')
      ]_vars

\* live scanning was stopped while the only scan was running, and that scan
\* went on to its next symbol and completed
C3_Witness ==
    /\ started = 1 /\ scans = {} /\ lastScanTime = 1
    /\ \E k \in LogPositions("Live scanning stopped") :
          \E j \in 1..(k - 1) : activityLog[j].message = "Scanning"

\* C4 as stated: opportunities changes only when a scan completes, to that
\* scan's finished list.
C4_OnlyReplacedAtCompletion ==
    [][opportunities' # opportunities =>
          \E sc \in scans :
              /\ sc.id \notin ScanIds(scans')
              /\ opportunities' = topOpportunities(sc.allOpportunities)
      ]_vars

\* C4, amended: opportunities is never a partial or merged list.  It
\* changes only by being emptied when a scan starts, by being replaced with
\* the finished list of a scan that completes, or by being re-ordered by a
\* table sort.
C4_ReplacedWholesale ==
    [][opportunities' # opportunities =>
          \/ started' = started + 1 /\ opportunities' = <<>>
          \/ \E sc \in scans :
                /\ sc.id \notin ScanIds(scans')
                /\ sc.i = totalSymbols
                /\ SortedDesc(opportunities')
                /\ Len(sc.allOpportunities) <= 100 =>
                      IsPermutation(opportunities', sc.allOpportunities)
          \/ /\ edits' = edits + 1 /\ scans' = scans
             /\ IsPermutation(opportunities', opportunities)
      ]_vars

\* a scan runs and the list is empty, although an earlier scan completed
\* with opportunities
C4_Witness ==
    /\ scans # {} /\ opportunities = <<>>
    /\ \E k \in LogPositions("Scan complete") :
          /\ activityLog[k].n > 0
          /\ \E j \in 1..(k - 1) : activityLog[j].message = "Starting scan"

\* C5: within a scan the symbols are fetched one after another in list
\* order: a scan never has two requests in flight, and the request of the
\* next symbol is issued only when the previous one has resolved, its
\* results are accumulated and the pause is over.
C5_SequentialFetches ==
    [][/\ \A r \in requests' \ requests :
             \/ r.i = 1 /\ r.scan \notin ScanIds(scans)
             \/ /\ r.scan \in ScanIds(scans)
                /\ ScanOf(scans, r.scan).pc = "pause"
                /\ ScanOf(scans, r.scan).i + 1 = r.i
                /\ \A q \in requests : q.scan # r.scan
       /\ \A id \in ScanIds(scans') :
             Cardinality({r \in requests' : r.scan = id}) <= 1
      ]_vars

\* a scan is fetching its second symbol with the opportunities of the first
\* accumulated, and that request is the only one it has in flight
C5_Witness ==
    \E sc \in scans :
        /\ sc.i = 2 /\ sc.pc = "fetch" /\ Len(sc.allOpportunities) > 0
        /\ {r \in requests : r.scan = sc.id} = {[scan |-> sc.id, i |-> 2]}

\* C6: what applyStrategyFilter returns for a symbol holds at most 50
\* opportunities in non-increasing order of lceScore, and the list a
\* completed scan stores holds at most 100 in non-increasing order.
C6_RankedAndCapped ==
    [][/\ \A sc \in scans :
             (sc.pc = "fetch" /\ sc.id \in ScanIds(scans')) =>
                 LET t == ScanOf(scans', sc.id)
                     chunk == SubSeq(t.allOpportunities,
                                     Len(sc.allOpportunities) + 1,
                                     Len(t.allOpportunities))
                 IN  Len(chunk) <= 50 /\ SortedDesc(chunk)
       /\ lastScanTime' # lastScanTime =>
             Len(opportunities') <= 100 /\ SortedDesc(opportunities')
      ]_vars

\* a scan of three long chains, each cut to 50, has completed with exactly
\* 100 opportunities stored
C6_Witness ==
    /\ started = 1 /\ scans = {} /\ lastScanTime = 1
    /\ Len(opportunities) = 100
    /\ \A i \in 1..3 :
          \E k \in LogPositions("Found opportunities") :
              activityLog[k].sym = i /\ activityLog[k].n = 50

(***************************************************************************)
(* Properties of the pure functions.                                       *)
(***************************************************************************)
\* C7: the lceScore is an integer from 0 to 100 for every combination of
\* bid, ask, volume, volatility and timeValue, absent fields and ask < bid
\* included.
C7_ScoreInRange == fnOut.called => fnOut.value \in 0..100

\* scored: a quote with ask < bid and no volume
C7_Witness ==
    /\ fnOut.called
    /\ fnIn.option.bid = 500 /\ fnIn.option.ask = 400
    /\ fnIn.option.totalVolume = Undefined
    /\ fnOut.value \in 0..100

\* C8: every option fetchOptionsChain returns has 0 < premium <=
\* maxOptionPrice, premium = (bid + ask) / 2 and minDaysToExpiry <=
\* daysToExpiry <= maxDaysToExpiry; a contract with bid = ask = 0 is not
\* among them.
C8_RetainedWithinLimits ==
    fnOut.called =>
        \A k \in 1..Len(fnOut.value.options) :
            LET o == fnOut.value.options[k]
                rs == fnIn.riskSettings
            IN  /\ o.premium > 0
                /\ rs.maxOptionPrice # NaN
                /\ o.premium <= rs.maxOptionPrice * PriceScale
                /\ 2 * o.premium = o.bid + o.ask
                /\ o.daysToExpiry # NaN
                /\ rs.minDaysToExpiry <= o.daysToExpiry
                /\ o.daysToExpiry <= rs.maxDaysToExpiry
                /\ ~(o.bid = 0 /\ o.ask = 0)

\* returned: an option whose premium is exactly maxOptionPrice and whose
\* expiry is exactly minDaysToExpiry days away
C8_Witness ==
    /\ fnOut.called
    /\ Len(fnOut.value.options) = 1
    /\ fnIn.riskSettings.maxOptionPrice = 2
    /\ fnOut.value.options[1].premium = 2 * PriceScale
    /\ fnOut.value.options[1].daysToExpiry = fnIn.riskSettings.minDaysToExpiry

\* the predicate C9 gives for each strategy; maxOptionPrice in dollars
C9_Keeps(o, strategy, maxOptionPrice) ==
    \/ strategy = "HIGH_MOMENTUM" /\ Abs(o.delta) > 40 /\ o.totalVolume >= 500
    \/ strategy = "HIGH_VALUE" /\ o.lceScore >= 70
          /\ maxOptionPrice # NaN /\ o.premium <= maxOptionPrice * PriceScale
    \/ strategy = "VOLATILITY_EXPANSION" /\ o.volatility > 30 /\ o.gamma > 1
    \/ strategy = "EARNINGS_PLAYS" /\ o.daysToExpiry <= 14 /\ o.totalVolume >= 1000
    \/ strategy = "TECHNICAL_SETUPS" /\ Abs(o.delta) >= 30 /\ o.theta < -5

\* C9: under each of the five strategies applyStrategyFilter keeps exactly
\* the opportunities that satisfy the strategy's predicate (lists of at most
\* 50, which the truncation leaves whole).
C9_KeepsExactlyMatching ==
    (fnOut.called /\ fnIn.strategy \in TRADING_STRATEGIES
        /\ Len(fnIn.options) <= 50) =>
        LET kept == SelectSeq(fnIn.options,
                        LAMBDA o : C9_Keeps(o, fnIn.strategy,
                                            fnIn.riskSettings.maxOptionPrice))
        IN  IsPermutation(fnOut.value, kept)

\* filtered under EARNINGS_PLAYS: of two opportunities the one that expires
\* in 20 days with volume 5000 is dropped
C9_Witness ==
    /\ fnOut.called
    /\ fnIn.strategy = "EARNINGS_PLAYS"
    /\ Len(fnIn.options) = 2 /\ Len(fnOut.value) = 1
    /\ fnIn.options[2].daysToExpiry = 20 /\ fnIn.options[2].totalVolume = 5000
    /\ fnOut.value[1] = fnIn.options[1]

\* the largest score among the rows <<bound, score>> of a threshold table,
\* 0 when there is none
C10_Best(rows) ==
    LET scores == {0} \cup {r[2] : r \in rows}
    IN  CHOOSE m \in scores : \A k \in scores : k <= m

\* L of C10: 100 / 75 / 50 / 25 / 0 at volume >= 1000 / 500 / 100 / 50
C10_L(volume) ==
    C10_Best({r \in {<<1000, 100>>, <<500, 75>>, <<100, 50>>, <<50, 25>>} :
                 volume >= r[1]})

\* C of C10: 100 / 80 / 60 / 40 / 20 / 0 at a spread of at most 3 / 5 / 10 /
\* 15 / 25 per cent of the premium (no row holds when the premium is 0)
C10_C(bid, ask) ==
    C10_Best({r \in {<<3, 100>>, <<5, 80>>, <<10, 60>>, <<15, 40>>, <<25, 20>>} :
                 bid + ask > 0 /\ 2 * (ask - bid) * 100 <= r[1] * (bid + ask)})

\* the score of C10 for an option with quotes that are not negative: the
\* integer n with n - 1/2 <= 0.40 L + 0.35 C + 0.25 V < n + 1/2, where V =
\* min(100, timeValue / premium * 100) is vn / vd
C10_Score(option) ==
    LET bid == OrZero(option.bid)
        ask == OrZero(option.ask)
        tv == OrZero(option.timeValue)
        L == C10_L(OrZero(option.totalVolume))
        C == C10_C(bid, ask)
        capped == bid + ask = 0 \/ 2 * tv >= bid + ask
        hasV == OrZero(option.volatility) > 0 /\ tv > 0
        vn == IF ~hasV THEN 0 ELSE IF capped THEN 100 ELSE 200 * tv
        vd == IF ~hasV \/ capped THEN 1 ELSE bid + ask
        num == (40 * L + 35 * C) * vd + 25 * vn
        den == 100 * vd
    IN  CHOOSE n \in 0..100 :
            (2 * n - 1) * den <= 2 * num /\ 2 * num < (2 * n + 1) * den

\* C10: calculateLCEScore is round(0.40 L + 0.35 C + 0.25 V) with the
\* tables of L and C and V = min(100, timeValue / premium * 100) when
\* volatility and timeValue are positive, else 0.
C10_ScoreIsWeightedSum ==
    (fnOut.called /\ OrZero(fnIn.option.bid) >= 0 /\ OrZero(fnIn.option.ask) >= 0)
        => fnOut.value = C10_Score(fnIn.option)

\* scored: bid 2.00, ask 2.50, volume 1200, no time value: C = 20, L = 100
\* and the score is round(40 + 7)
C10_Witness ==
    /\ fnOut.called
    /\ fnIn.option.bid = 400 /\ fnIn.option.ask = 500
    /\ fnIn.option.totalVolume = 1200 /\ fnIn.option.timeValue = 0
    /\ C10_C(400, 500) = 20 /\ C10_L(1200) = 100
    /\ fnOut.value = 47

(***************************************************************************)
(* Progress and the activity log.                                          *)
(***************************************************************************)
\* the entries a step puts on top of the activity log
NewEntries ==
    SubSeq(activityLog', 1, Len(activityLog') - Len(activityLog))

\* the entries of the log that tell the outcome of symbol i
OutcomePositions(i) ==
    {k \in LogPositions("Found opportunities")
            \cup LogPositions("Failed to fetch options") : activityLog[k].sym = i}

\* C11 as stated: the progress is set once for each symbol a scan comes to,
\* it never decreases from one step to the next while a scan runs, and it
\* is 100 when a scan returns.
C11_ProgressPerSymbol ==
    [][/\ \A t \in scans' :
             (t.id \notin ScanIds(scans) \/ ScanOf(scans, t.id).i # t.i)
                 => scanProgress' = MathRound(<<t.i * 100, totalSymbols>>)
       /\ (scans # {} /\ ScanIds(scans) \subseteq ScanIds(scans'))
             => scanProgress' >= scanProgress
       /\ ~(ScanIds(scans) \subseteq ScanIds(scans')) => scanProgress' = 100
      ]_vars

\* C12 as stated: every symbol a scan has finished has an outcome entry in
\* the log, a success entry with a count or an error entry with a message
\* (read off the log of a behaviour with a single scan).
C12_EverySymbolHasOutcome ==
    started = 1 =>
        \A sc \in scans :
            \A i \in 1..sc.i :
                (i < sc.i \/ sc.pc = "pause") => OutcomePositions(i) # {}

\* C12, amended: when the fetch of a symbol resolves, the log receives one
\* error entry with the failure message if the fetch failed, one success
\* entry with the count if at least one opportunity passed the strategy
\* filter, and nothing if the chain was fetched and no opportunity passed.
C12_OutcomeLoggedUnlessEmpty ==
    [][\A sc \in scans :
          (sc.pc = "fetch" /\ sc.id \in ScanIds(scans')
              /\ ScanOf(scans', sc.id).pc = "pause") =>
             \E r \in Responses :
                LET got == fetchOptionsChain(symbols[sc.i], r, sc.riskSettings)
                    found == Len(ScanOf(scans', sc.id).allOpportunities)
                                 - Len(sc.allOpportunities)
                IN  /\ found = Len(applyStrategyFilter(got.options,
                                       sc.selectedStrategy, sc.riskSettings))
                    /\ NewEntries =
                          IF got.error # "none"
                          THEN <<[message |-> "Failed to fetch options",
                                  detail |-> got.error, sym |-> sc.i, n |-> 0,
                                  type |-> "error"]>>
                          ELSE IF found > 0
                          THEN <<[message |-> "Found opportunities",
                                  detail |-> "", sym |-> sc.i, n |-> found,
                                  type |-> "success"]>>
                          ELSE <<>>
      ]_vars

\* a single scan has completed: the failure of its first symbol is in the
\* log, and its last symbol, fetched with nothing passing, left no outcome
\* entry
C12_Witness ==
    /\ started = 1 /\ scans = {} /\ lastScanTime = 1
    /\ \E k \in OutcomePositions(1) : activityLog[k].type = "error"
    /\ OutcomePositions(totalSymbols) = {}
    /\ \E k \in LogPositions("Scanning") : activityLog[k].sym = totalSymbols

\* C13 as stated: once EnhancedApp is authenticated, startScan invoked in
\* the Options Scanner tab starts a scan and is not rejected: while the
\* scanner is mounted its log holds no 'Not authenticated' entry.
C13_AuthenticatedScanStarts ==
    Mounted => LogPositions("ERROR: Not authenticated with Schwab") = {}

\* C14 as stated: while live scanning is active there is one periodic
\* timer, starting it runs a scan at once, and each of its ticks at which no
\* scan is running starts a scan; while it is not active no tick starts one.
C14_LiveTimerScans ==
    [][/\ Cardinality(timers') <= 1
       /\ (scanInterval = Undefined /\ scanInterval' # Undefined)
             => started' = started + 1
       /\ (ticks' = ticks + 1 /\ scanInterval # Undefined /\ scans = {})
             => started' = started + 1
       /\ (ticks' = ticks + 1 /\ scanInterval = Undefined)
             => started' = started
      ]_vars

\* the payload of a response has neither a call map nor a put map
C15_NoChain(r) ==
    \/ r.kind = "null"
    \/ r.kind = "data" /\ "callExpDateMap" \notin DOMAIN r.data
                       /\ "putExpDateMap" \notin DOMAIN r.data

\* C15: a payload with neither callExpDateMap nor putExpDateMap puts a 'No
\* options data' entry of severity error for the symbol in the log, adds no
\* opportunity, and leaves the scan running, in the pause before the next
\* symbol.  Every request that resolves either is accounted for by a
\* response with a chain that yields the opportunities added, or shows
\* exactly this.
C15_NoDataLoggedAndSkipped ==
    [][\A sc \in scans :
          [scan |-> sc.id, i |-> sc.i] \in requests \ requests' =>
             /\ sc.id \in ScanIds(scans')
             /\ LET t == ScanOf(scans', sc.id)
                    added == SubSeq(t.allOpportunities,
                                    Len(sc.allOpportunities) + 1,
                                    Len(t.allOpportunities))
                IN  /\ t.i = sc.i /\ t.pc = "pause"
                    /\ IsPrefix(sc.allOpportunities, t.allOpportunities)
                    /\ \/ \E r \in HeavyResponses :
                             /\ ~C15_NoChain(r)
                             /\ added # <<>>
                             /\ added = applyStrategyFilter(
                                   fetchOptionsChain(symbols[sc.i], r,
                                                     sc.riskSettings).options,
                                   sc.selectedStrategy, sc.riskSettings)
                       \/ /\ \E r \in HeavyResponses : C15_NoChain(r)
                          /\ added = <<>>
                          /\ NewEntries =
                                <<[message |-> "Failed to fetch options",
                                   detail |-> "No options data", sym |-> sc.i,
                                   n |-> 0, type |-> "error"]>>
      ]_vars

\* the first symbol of a scan came without a chain: the log holds the error
\* entry, nothing was added, and the scan is fetching its second symbol
C15_Witness ==
    /\ started = 1
    /\ \E sc \in scans :
          /\ sc.i = 2 /\ sc.pc = "fetch" /\ sc.allOpportunities = <<>>
          /\ [scan |-> sc.id, i |-> 2] \in requests
    /\ \E k \in OutcomePositions(1) :
          /\ activityLog[k].detail = "No options data"
          /\ activityLog[k].type = "error"

C17_VolumeAtLeastMin ==
    fnOut.called =>
        \A k \in 1..Len(fnOut.value.options) :
            /\ fnIn.riskSettings.minVolume # NaN
            /\ fnOut.value.options[k].volume >= fnIn.riskSettings.minVolume
            /\ fnOut.value.options[k].totalVolume >= fnIn.riskSettings.minVolume

\* returned under minVolume 1000: of a chain of two calls and a put, the
\* call with volume 1200 and the put with volume 1500, not the call with 600
C17_Witness ==
    /\ fnOut.called
    /\ fnIn.riskSettings.minVolume = 1000
    /\ fnIn.response = [kind |-> "data", data |-> SmallChain]
    /\ Len(fnOut.value.options) = 2
    /\ fnOut.value.options[1].type = "CALL" /\ fnOut.value.options[1].volume = 1200
    /\ fnOut.value.options[2].type = "PUT" /\ fnOut.value.options[2].volume = 1500

\* C18: under a strategy id that is none of the five, applyStrategyFilter
\* returns all its input in non-increasing order of lceScore, cut to the
\* first 50: what is left out scores no higher than what is returned.
C18_UnknownStrategyPassesAll ==
    (fnOut.called /\ fnIn.strategy \notin TRADING_STRATEGIES) =>
        LET in == fnIn.options
            out == fnOut.value
        IN  /\ Len(out) = IF Len(in) < 50 THEN Len(in) ELSE 50
            /\ SortedDesc(out)
            /\ \A k \in 1..Len(out) :
                  Cardinality({j \in 1..Len(out) : out[j] = out[k]})
                      <= Cardinality({j \in 1..Len(in) : in[j] = out[k]})
            /\ \A j \in 1..Len(in) :
                  \/ \E k \in 1..Len(out) : out[k] = in[j]
                  \/ Len(out) = 50 /\ in[j].lceScore <= out[50].lceScore

\* filtered under an unknown strategy: a list of more than 50, of which 50
\* are returned
C18_Witness ==
    /\ fnOut.called
    /\ fnIn.strategy = "UNKNOWN"
    /\ Len(fnIn.options) > 50
    /\ Len(fnOut.value) = 50

\* the tier C19 gives for a volume, as a rank: LOW 0, MEDIUM 1, HIGH 2
C19_Rank(tier) == CASE tier = "LOW" -> 0 [] tier = "MEDIUM" -> 1 [] tier = "HIGH" -> 2

\* C19: the liquidity of every option fetchOptionsChain returns is HIGH at
\* volume >= 1000, MEDIUM at 500 <= volume < 1000 and LOW below 500, and of
\* two options of one result the one with more volume has no lower tier.
C19_LiquidityTier ==
    fnOut.called =>
        LET out == fnOut.value.options
        IN  /\ \A k \in 1..Len(out) :
                  /\ out[k].volume >= 1000 => out[k].liquidity = "HIGH"
                  /\ (500 <= out[k].volume /\ out[k].volume < 1000)
                        => out[k].liquidity = "MEDIUM"
                  /\ out[k].volume < 500 => out[k].liquidity = "LOW"
            /\ \A j, k \in 1..Len(out) :
                  out[j].volume <= out[k].volume
                      => C19_Rank(out[j].liquidity) <= C19_Rank(out[k].liquidity)

\* returned under minVolume 0: an option with volume 499, tier LOW
C19_Witness ==
    /\ fnOut.called
    /\ fnIn.riskSettings.minVolume = 0
    /\ Len(fnOut.value.options) = 1
    /\ fnOut.value.options[1].volume = 499
    /\ fnOut.value.options[1].liquidity = "LOW"

\* C20 as stated: every symbol a scan requests, and the symbol of every
\* opportunity it accumulates, has 1 to 5 letters (the symbols of the model
\* consist of upper-case letters only).
C20_SymbolsAreTickers ==
    /\ \A r \in requests : Len(symbols[r.i]) \in 1..5
    /\ \A sc \in scans :
          \A k \in 1..Len(sc.allOpportunities) :
              Len(sc.allOpportunities[k].symbol) \in 1..5

\* the scan with this id has returned and left its results
C21_Returned(id) ==
    /\ id \notin ScanIds(scans)
    /\ requests = {}
    /\ ~isScanning
    /\ scanProgress = 100
    /\ lastScanTime = id
    /\ SortedDesc(opportunities)
    /\ Len(opportunities) <= ScanCap

\* C21: every scan that has started returns in the end, with isScanning
\* false, the progress at 100 and the opportunities set to the ranked list,
\* whatever mix of successes and failures its requests are answered with,
\* as long as each request is answered and each pause elapses.
C21_ScanTerminates ==
    \A id \in 1..MaxScans : (id \in ScanIds(scans)) ~> C21_Returned(id)

\* a scan has returned after a failed and a successful request
C21_Witness ==
    /\ started >= 1
    /\ C21_Returned(started)
    /\ LogPositions("Failed to fetch options") # {}
    /\ LogPositions("Found opportunities") # {}
    /\ Len(opportunities) > 0

\* C22: every scan the live timer starts works with the strategy and the risk
\* settings of the moment it starts, and starts only while the component is
\* authenticated at that moment, whatever they were when live scanning was
\* switched on.
C22_TimerScanUsesCurrentSettings ==
    [][ticks' = ticks + 1 =>
          \A sc \in scans' \ scans :
              /\ sc.selectedStrategy = selectedStrategy
              /\ sc.riskSettings = riskSettings
              /\ authenticated]_vars

\* the entry startScan logs when the component is not authenticated
C26_ErrorEntry == LogEntry("ERROR: Not authenticated with Schwab", "", 0, 0, "error")

\* C26: startScan invoked while not authenticated (the Run Scan button, the
\* only control that calls it then) puts exactly one error entry on top of
\* the activity log and changes nothing else: isScanning, scanProgress,
\* opportunities and lastScanTime keep their values, no scan starts and no
\* chain request is sent.
C26_UnauthenticatedScanOnlyLogs ==
    [][(clicks' = clicks + 1 /\ ~authenticated) =>
          /\ activityLog' = <<C26_ErrorEntry>> \o activityLog
          /\ UNCHANGED <<isScanning, scanProgress, opportunities, lastScanTime,
                         scans, requests, started, selectedStrategy, riskSettings,
                         scanInterval, scanIntervalRef, timers, sortColumn,
                         sortDirection>>]_vars

\* Run Scan has been clicked without authentication after an earlier scan
\* had finished
C26_Witness ==
    /\ ~authenticated
    /\ activityLog # <<>>
    /\ activityLog[1] = C26_ErrorEntry
    /\ lastScanTime # Undefined
    /\ scanProgress = 100

\* entries the log is said to keep
LogCap == 100

\* the last n elements of seq, the last one first
C28_NewestFirst(seq, n) ==
    [k \in 1..(IF Len(seq) < n THEN Len(seq) ELSE n) |-> seq[Len(seq) + 1 - k]]

\* C28: after any sequence of addActivityLog calls the log holds at most
\* 100 entries, and they are exactly the entries logged last, the newest
\* first.
C28_LogKeepsNewest ==
    /\ Len(activityLog) <= LogCap
    /\ activityLog = C28_NewestFirst(fnIn.logged, LogCap)

\* more than 100 entries have been logged
C28_Witness ==
    /\ Len(fnIn.logged) > LogCap
    /\ Len(activityLog) = LogCap
    /\ activityLog[1].n = Len(fnIn.logged)

\* C25: once the scanner has been unmounted, no live timer is left and no
\* further scan is started.
C25_UnmountStopsLiveScanning ==
    [][activeTab # "scanner" => (timers = {} /\ started' = started)]_vars

\* the last element of a sequence
Last(seq) == seq[Len(seq)]

\* a makeRequest has finished, an ensureValidToken has been called
RequestDone == fnOut # NoCall /\ fnOut.called /\ fnOut.fn = "makeRequest"
EnsureDone == fnOut # NoCall /\ fnOut.called /\ fnOut.fn = "ensureValidToken"

\* the token answers of an accepted refresh
AcceptedRefresh == {a \in TokenAnswers : a.kind = "ok" /\ a.stored}

\* C23: when a turn of makeRequest receives a 401 and attempts remain, the
\* stored refresh token is still there afterwards, and a later turn in which
\* the provider accepts the refresh and the upstream answers 200 returns
\* the data.
C23_RetryAfter401 ==
    [][Running =>
         /\ (/\ fnOut'.fetches = fnOut.fetches + 1
             /\ Last(fnOut'.answers) = 401
             /\ fnOut.attempt < fnIn.retries)
               => Truthy(getTokenInfo(tokenFile').refreshToken)
         /\ (/\ fnOut.answers # <<>>
             /\ Last(fnOut.answers) = 401
             /\ \E refresh \in AcceptedRefresh :
                   LET r == Attempt(fnOut, fnIn, tokenFile, cache, issued, now,
                                    200, refresh)
                   IN  fnOut' = r.st /\ tokenFile' = r.file /\ issued' = r.issued)
               => fnOut'.outcome = "return"]_vars

\* C24: a finished makeRequest has returned the data or thrown an Error
\* object (never undefined), after at most retries + 1 fetches.
C24_ReturnsOrThrowsError ==
    RequestDone =>
        /\ fnOut.outcome \in {"return", "throw"}
        /\ fnOut.fetches <= fnIn.retries + 1
        /\ fnOut.outcome = "throw" => fnOut.lastError # <<>>

\* the token the file held when the function was called expires in less
\* than 5 minutes
C27_ExpiringSoon ==
    /\ fnIn.before # <<>>
    /\ Truthy(fnIn.before[1].accessToken)
    /\ fnIn.before[1].expiresAt - fnIn.at < 300000

C30_NoDataWithoutToken ==
    (RequestDone /\ fnIn.method = "GET" /\ fnIn.before = <<>>) =>
        fnOut.outcome # "return"

\* the config of the other service
C29_Other(service) == IF service = "marketData" THEN trading ELSE marketData

\* C29: a call of exchangeCodeForToken, refreshAccessToken or logout for one
\* service leaves accessToken, refreshToken and tokenExpiry of the other
\* service as they were, and with them the other service's isAuthenticated.
C29_ServicesIndependent ==
    [][now' = now =>
         \A service \in Services :
            fnIn'.service = service =>
               /\ C29_Other(service)' = C29_Other(service)
               /\ DualIsAuthenticated(C29_Other(service)', now')
                     = DualIsAuthenticated(C29_Other(service), now)]_vars

\* Market Data has been logged out of while Accounts & Trading is
\* authenticated
C29_Witness ==
    /\ fnIn # NoCall
    /\ fnIn.fn = "logout"
    /\ fnIn.service = "marketData"
    /\ marketData = NoConfig
    /\ DualIsAuthenticated(trading, now)
    /\ issued >= 2

====
